---- MODULE Spec2Model ----
(***************************************************************************)
(* Lossless Markdown document model of markdown_db.py: the block parser,   *)
(* the inline scanner, the dirty-tracking serializer and the mutation API. *)
(* Text is a sequence of one-character strings.  Indices and offsets keep  *)
(* the 0-based values of the Python source; At and Slice translate them.   *)
(***************************************************************************)
EXTENDS Integers, Sequences, FiniteSets, TLC

VARIABLES
    text,            \* the markdown argument of the last Parse call
    lines,           \* markdown.splitlines(keepends=True)
    i,               \* Parse: index of the next line
    pc,              \* "ready" (no call in progress) or "loop" (inside Parse's main loop)
    stack,           \* Parse: open-heading stack (node ids)
    stack_levels,    \* Parse: levels of the stack entries
    nodes,           \* the node objects, by id, in creation order; nodes[Root] is the document
    span,            \* ghost: the source offsets <<lo, hi>> each parsed node was built from
    err,             \* the exception raised by the last operation, or NoErr
    op,              \* the last public operation called and its arguments
    out,             \* the value returned by the last serializer call
    cls,             \* ghost: the class Parse gave each line
    mutated,         \* ghost: ids of the nodes mutated through the public API
    nparse,          \* number of Parse calls so far
    nops             \* number of calls made on the document since it was first parsed

vars == <<text, lines, i, pc, stack, stack_levels, nodes, span,
          err, op, out, cls, mutated, nparse, nops>>

----------------------------------------------------------------------------
(* Sequences with Python's 0-based indexing *)

At(s, k) == s[k + 1]

Slice(s, a, b) == SubSeq(s, a + 1, b)

Max(S) == CHOOSE x \in S : \A y \in S : y <= x

Min(S) == CHOOSE x \in S : \A y \in S : x <= y

RECURSIVE Flatten(_)
Flatten(ss) == IF ss = <<>> THEN <<>> ELSE Head(ss) \o Flatten(Tail(ss))

\* str.startswith(prefix, pos)
StartsWith(s, prefix, pos) ==
    /\ pos + Len(prefix) <= Len(s)
    /\ Slice(s, pos, pos + Len(prefix)) = prefix

\* a search that returns the last index >= from holding ch, or -1
FindLast(s, ch, from) ==
    LET hits == {k \in from .. Len(s) - 1 : At(s, k) = ch}
    IN  IF hits = {} THEN -1 ELSE Max(hits)

\* str.find(ch, from): the least index >= from holding ch, or -1
Find(s, ch, from) ==
    LET hits == {k \in from .. Len(s) - 1 : At(s, k) = ch}
    IN  IF hits = {} THEN -1 ELSE Min(hits)

\* the length of the longest prefix of s, from offset a, made of characters of C
RunLen(s, a, C) ==
    Max({k \in 0 .. Len(s) - a : \A j \in 0 .. k - 1 : At(s, a + j) \in C})

\* the length of the longest suffix of s made of characters of C
TailRunLen(s, C) ==
    Max({k \in 0 .. Len(s) : \A j \in 1 .. k : s[Len(s) - j + 1] \in C})

----------------------------------------------------------------------------
(* Character classes of the regular expressions and of str methods *)

SpaceTab == {" ", "\t"}

\* \s of re, and the characters str.strip() removes
Whitespace == {" ", "\t", "\n", "\r", "\f"}

\* the line boundaries of str.splitlines
LineBreaks == {"\n", "\r", "\f"}

CrLf == {"\r", "\n"}

\* the character U+0060, which a TLA+ string cannot hold
Backtick == "BQ"

\* the length of the line-ending group (\r?\n)? at the end of s
EolLen(s) ==
    IF Len(s) >= 1 /\ s[Len(s)] = "\n"
    THEN IF Len(s) >= 2 /\ s[Len(s) - 1] = "\r" THEN 2 ELSE 1
    ELSE 0

\* markdown.splitlines(keepends=True)
RECURSIVE splitlines(_)
splitlines(s) ==
    IF s = <<>> THEN <<>>
    ELSE LET brk == {k \in 0 .. Len(s) - 1 : At(s, k) \in LineBreaks}
         IN  IF brk = {} THEN <<s>>
             ELSE LET k == Min(brk)
                      e == IF At(s, k) = "\r" /\ k + 1 < Len(s) /\ At(s, k + 1) = "\n"
                           THEN k + 2 ELSE k + 1
                  IN  <<Slice(s, 0, e)>> \o splitlines(Slice(s, e, Len(s)))

\* text.rstrip("\r\n")
strip_linebreaks_only(s) == Slice(s, 0, Len(s) - TailRunLen(s, CrLf))

\* str.strip()
strip(s) ==
    LET a == RunLen(s, 0, Whitespace)
        r == Slice(s, a, Len(s))
    IN  Slice(r, 0, Len(r) - TailRunLen(r, Whitespace))

\* a splitter that takes spaces and tabs only, no line endings
split_trivia_inline(raw) ==
    LET a == RunLen(raw, 0, SpaceTab)
        r == Slice(raw, a, Len(raw))
        t == TailRunLen(r, SpaceTab)
    IN  [leading  |-> Slice(raw, 0, a),
         core     |-> Slice(r, 0, Len(r) - t),
         trailing |-> Slice(r, Len(r) - t, Len(r))]

\* re.match(r"(\s*)(.*?)(\s*)\Z", raw, DOTALL): greedy leading run, lazy core
split_trivia(raw) ==
    LET a == RunLen(raw, 0, Whitespace)
        r == Slice(raw, a, Len(raw))
        t == TailRunLen(r, Whitespace)
    IN  [leading  |-> Slice(raw, 0, a),
         core     |-> Slice(r, 0, Len(r) - t),
         trailing |-> Slice(r, Len(r) - t, Len(r))]

----------------------------------------------------------------------------
(* The line grammar of Parse.  A definition that names the groups of a   *)
(* match takes the offsets where the groups end as parameters.              *)

\* the offset after the longest run of characters of C that starts at a
Skip(s, a, C) == a + RunLen(s, a, C)

\* blank_line_re: ^[ \t]*\r?\n\Z
is_blank(line) ==
    \/ Slice(line, Skip(line, 0, SpaceTab), Len(line)) = <<"\n">>
    \/ Slice(line, Skip(line, 0, SpaceTab), Len(line)) = <<"\r", "\n">>

\* a heading grammar that takes one '#' more
HashesMaxWide == 6 + 1

\* the most '#' characters of a heading: #{1,6}
HashesMax == 6

\* the groups of heading_re, for the indentation ending at a, the run of '#'
\* at p and the run of spaces and tabs at q: lazy title, trailing spaces and
\* tabs, optional \r?\n.  '.' matches everything but \n.
heading_groups(line, a, p, q) ==
    LET e  == EolLen(Slice(line, q, Len(line)))
        tr == TailRunLen(Slice(line, q, Len(line) - EolLen(Slice(line, q, Len(line)))),
                         SpaceTab)
    IN  IF /\ p - a >= 1 /\ p - a <= HashesMax /\ q - p >= 1
           /\ \A k \in q + 1 .. Len(line) - e : line[k] # "\n"
        THEN [ok |-> TRUE,
              indent |-> Slice(line, 0, a), hashes |-> Slice(line, a, p),
              space |-> Slice(line, p, q),
              title |-> Slice(line, q, Len(line) - e - tr),
              trailing |-> Slice(line, Len(line) - e - tr, Len(line) - e),
              eol |-> Slice(line, Len(line) - e, Len(line))]
        ELSE [ok |-> FALSE]

\* heading_re: ^[ \t]*#{1,6}[ \t]+(.*?)[ \t]*(\r?\n)?\Z
heading_match(line) ==
    heading_groups(line,
        Skip(line, 0, SpaceTab),
        Skip(line, Skip(line, 0, SpaceTab), {"#"}),
        Skip(line, Skip(line, Skip(line, 0, SpaceTab), {"#"}), SpaceTab))

\* the fewest characters of a fence: {3,}
FenceMin == 3

\* the offset after the fence run that starts at a: backticks or tildes, greedy
FenceEnd(line, a) ==
    IF a < Len(line) /\ At(line, a) \in {Backtick, "~"}
    THEN Skip(line, a, {At(line, a)})
    ELSE a

\* the groups of fence_open_re, for the indentation ending at a and the fence
\* at p: [^\r\n]* and the optional \r?\n
fence_groups(line, a, p) ==
    LET e == EolLen(Slice(line, p, Len(line)))
    IN  IF /\ p - a >= FenceMin
           /\ \A k \in p + 1 .. Len(line) - e : line[k] \notin CrLf
        THEN [ok |-> TRUE,
              indent |-> Slice(line, 0, a), fence |-> Slice(line, a, p),
              info |-> Slice(line, p, Len(line) - e),
              eol |-> Slice(line, Len(line) - e, Len(line))]
        ELSE [ok |-> FALSE]

\* fence_open_re: ^[ \t]*(3+ backticks | 3+ tildes)[^\r\n]*(\r?\n)?\Z, and the
\* same expression with a lazy third group in _parse_opening / _parse_closing
fence_open_match(line) ==
    fence_groups(line, Skip(line, 0, SpaceTab),
                 FenceEnd(line, Skip(line, 0, SpaceTab)))

\* a closing rule that takes any fence of the least length
CloseMinLenAny(fence_len) == FenceMin

\* the least number of fence characters a closing line needs: {fence_len,}
CloseMinLen(fence_len) == fence_len

\* the rest of mclose after the fence run: [ \t]*[^\r\n]*\r?\n?\Z
close_tail(r) ==
    LET n1 == IF Len(r) >= 1 /\ r[Len(r)] = "\n" THEN Len(r) - 1 ELSE Len(r)
    IN  \A k \in 1 .. n1 : r[k] \in CrLf => (k = n1 /\ r[k] = "\r")

\* a closing rule that takes a run of either fence character
fence_close_either(l2, fence_char, fence_len) ==
    \E ch \in {Backtick, "~"} :
        RunLen(l2, Skip(l2, 0, SpaceTab), {ch}) >= fence_len

\* mclose: ^[ \t]*<fence_char>{fence_len,}[ \t]*[^\r\n]*\r?\n?\Z
fence_close_match(l2, fence_char, fence_len) ==
    /\ RunLen(l2, Skip(l2, 0, SpaceTab), {fence_char}) >= CloseMinLen(fence_len)
    /\ close_tail(Slice(l2, Skip(l2, Skip(l2, 0, SpaceTab), {fence_char}), Len(l2)))

----------------------------------------------------------------------------
(* Node objects.  A reference to a node is its id; None is 0. *)

None == 0

\* the id of the MarkdownDocument
Root == 1

HeadingTypes == [l \in 1 .. 6 |->
    <<"Heading1", "Heading2", "Heading3", "Heading4", "Heading5", "Heading6">>[l]]

\* MarkdownNode.__init__
MarkdownNode(node_type) ==
    [Type |-> node_type, parent |-> None, children |-> <<>>, dirty_self |-> FALSE]

\* MarkdownDocument.__init__ before the call of Parse
MarkdownDocument ==
    [Type |-> "Root", parent |-> None, children |-> <<>>, dirty_self |-> FALSE,
     leading_trivia |-> <<>>]

\* the fields of a TextNode whose raw text splits into t
TextFields(raw, t) ==
    [Type |-> "Text", parent |-> None, children |-> <<>>, dirty_self |-> FALSE,
     raw_original |-> raw,
     leading |-> t.leading, core |-> t.core, trailing |-> t.trailing]

\* TextNode.__init__
TextNode(raw) == TextFields(raw, split_trivia(raw))

\* the fields of a LinkNode whose label and href split into l and h
LinkFields(raw, is_image, l, h) ==
    [Type |-> IF is_image THEN "Image" ELSE "Link",
     parent |-> None, children |-> <<>>, dirty_self |-> FALSE,
     raw_original |-> raw, is_image |-> is_image,
     label_leading |-> l.leading, label_core |-> l.core,
     label_trailing |-> l.trailing,
     href_leading |-> h.leading, href_core |-> h.core,
     href_trailing |-> h.trailing]

\* LinkNode.__init__
LinkNode(raw, label, href, is_image) ==
    LinkFields(raw, is_image, split_trivia(label), split_trivia(href))

\* CodeBlockNode._parse_opening and _parse_closing: the same expression
\* (the third group is named info or trailing), the same fallback
fence_line_groups(line, m) ==
    IF m.ok
    THEN [indent |-> m.indent, fence |-> m.fence, rest |-> m.info, eol |-> m.eol]
    ELSE [indent |-> <<>>, fence |-> <<Backtick, Backtick, Backtick>>,
          rest |-> <<>>,
          eol |-> IF Len(line) >= 1 /\ line[Len(line)] = "\n"
                  THEN <<"\n">> ELSE <<>>]

parse_fence_line(line) == fence_line_groups(line, fence_open_match(line))

\* the fields of a CodeBlockNode whose fence lines parse into o and c
CodeBlockFields(opening_line, code_body, closing_line, block_suffix, o, c) ==
    [Type |-> "CodeBlock", parent |-> None, children |-> <<>>,
     dirty_self |-> FALSE,
     opening_line_original |-> opening_line,
     closing_line_original |-> closing_line,
     block_suffix_original |-> block_suffix,
     opening_prefix |-> o.indent, fence |-> o.fence, info |-> o.rest,
     opening_eol |-> o.eol,
     closing_indent |-> c.indent, closing_fence |-> c.fence,
     closing_trailing |-> c.rest, closing_eol |-> c.eol,
     code_body_original |-> code_body, code_body_current |-> code_body]

\* CodeBlockNode.__init__
CodeBlockNode(opening_line, code_body, closing_line, block_suffix) ==
    CodeBlockFields(opening_line, code_body, closing_line, block_suffix,
                    parse_fence_line(opening_line), parse_fence_line(closing_line))

\* the fields of a HeadingNode whose title splits into t
HeadingFields(level, raw_line, prefix, t, line_suffix, block_suffix) ==
    [Type |-> HeadingTypes[level], parent |-> None, children |-> <<>>,
     dirty_self |-> FALSE, Level |-> level,
     raw_line_original |-> raw_line, prefix |-> prefix,
     title_leading |-> t.leading, title_core |-> t.core,
     title_trailing |-> t.trailing,
     line_suffix |-> line_suffix, block_suffix |-> block_suffix]

\* HeadingNode.__init__
HeadingNode(level, raw_line, prefix, title_raw, line_suffix, block_suffix) ==
    HeadingFields(level, raw_line, prefix, split_trivia(title_raw),
                  line_suffix, block_suffix)

IsHeading(nd) == nd.Type \in {HeadingTypes[l] : l \in 1 .. 6}

----------------------------------------------------------------------------
(* Inline scanner *)

NoMatch == [ok |-> FALSE]

\* _try_parse_link from "close_paren = raw.find(")", href_start)"
link_close(raw, pos, is_image, label_start, close_bracket, close_paren) ==
    IF close_paren = -1 THEN NoMatch
    ELSE [ok |-> TRUE, start |-> pos, end |-> close_paren + 1,
          label |-> Slice(raw, label_start, close_bracket),
          href |-> Slice(raw, close_bracket + 2, close_paren),
          is_image |-> is_image]

\* _try_parse_link from "close_bracket = raw.find("]", label_start)"
link_label(raw, pos, is_image, label_start, close_bracket) ==
    IF close_bracket = -1 THEN NoMatch
    ELSE IF close_bracket + 1 >= Len(raw) \/ At(raw, close_bracket + 1) # "("
         THEN NoMatch
    ELSE link_close(raw, pos, is_image, label_start, close_bracket,
                    Find(raw, ")", close_bracket + 2))

\* _try_parse_link
try_parse_link(raw, pos, is_image) ==
    IF is_image
    THEN IF ~StartsWith(raw, <<"!", "[">>, pos) THEN NoMatch
         ELSE link_label(raw, pos, is_image, pos + 2, Find(raw, "]", pos + 2))
    ELSE IF At(raw, pos) # "[" THEN NoMatch
         ELSE link_label(raw, pos, is_image, pos + 1, Find(raw, "]", pos + 1))

\* a flush that drops a pending text of one character
flush_text_long(buffer_start, until) ==
    IF until > buffer_start + 1
    THEN <<[ok |-> FALSE, start |-> buffer_start, end |-> until]>>
    ELSE <<>>

\* flush_text of _parse_inlines: the pending text span, if not empty
flush_text(buffer_start, until) ==
    IF until > buffer_start
    THEN <<[ok |-> FALSE, start |-> buffer_start, end |-> until]>>
    ELSE <<>>

\* the while loop of _parse_inlines: the spans of raw, in order, a link or
\* image match (ok) or plain text
RECURSIVE inline_spans(_, _, _, _)

\* one iteration at offset k, img and lnk being the results of the two
\* _try_parse_link attempts
inline_step(raw, k, buffer_start, acc, img, lnk) ==
    IF img.ok
    THEN inline_spans(raw, img.end, img.end,
                      acc \o flush_text(buffer_start, img.start) \o <<img>>)
    ELSE IF lnk.ok
    THEN inline_spans(raw, lnk.end, lnk.end,
                      acc \o flush_text(buffer_start, lnk.start) \o <<lnk>>)
    ELSE inline_spans(raw, k + 1, buffer_start, acc)

inline_spans(raw, k, buffer_start, acc) ==
    IF k >= Len(raw) THEN acc \o flush_text(buffer_start, Len(raw))
    ELSE inline_step(raw, k, buffer_start, acc,
             IF StartsWith(raw, <<"!", "[">>, k)
             THEN try_parse_link(raw, k, TRUE) ELSE NoMatch,
             IF At(raw, k) = "["
             THEN try_parse_link(raw, k, FALSE) ELSE NoMatch)

\* the node _parse_inlines appends for one span
inline_node(raw, sp) ==
    IF sp.ok
    THEN LinkNode(Slice(raw, sp.start, sp.end), sp.label, sp.href, sp.is_image)
    ELSE TextNode(Slice(raw, sp.start, sp.end))

\* the nodes of the spans sps of raw
inline_nodes(raw, sps) == [k \in 1 .. Len(sps) |-> inline_node(raw, sps[k])]

\* _parse_inlines
parse_inlines(raw) == inline_nodes(raw, inline_spans(raw, 0, 0, <<>>))

\* the paragraph object with id self, then its inline children kids
ParagraphFields(raw_content, block_suffix, self, kids) ==
    <<[Type |-> "Paragraph", parent |-> None,
       children |-> [k \in 1 .. Len(kids) |-> self + k],
       dirty_self |-> FALSE,
       raw_original |-> raw_content, block_suffix |-> block_suffix]>>
    \o [k \in 1 .. Len(kids) |-> [kids[k] EXCEPT !.parent = self]]

\* ParagraphNode.__init__ of the object with id self
ParagraphNode(raw_content, block_suffix, self) ==
    ParagraphFields(raw_content, block_suffix, self, parse_inlines(raw_content))

----------------------------------------------------------------------------
(* Dirty tracking and serialisation, over a node store ns *)

\* MarkdownNode.IsDirty
RECURSIVE IsDirty(_, _)
IsDirty(ns, n) ==
    \/ ns[n].dirty_self
    \/ \E k \in 1 .. Len(ns[n].children) : IsDirty(ns, ns[n].children[k])

\* MarkdownNode.MarkDirty
MarkDirty(nd) == [nd EXCEPT !.dirty_self = TRUE]

\* a returned string, or the RecursionError of an unbounded descent
Ret(s) == [ok |-> TRUE, s |-> s]

RecursionError == [ok |-> FALSE, s |-> <<>>]

Cat(a, b) == IF a.ok /\ b.ok THEN Ret(a.s \o b.s) ELSE RecursionError

\* a serialiser that returns the trimmed text of a clean text node
TextToMarkdownTrimmed(ns, n) ==
    IF ~ns[n].dirty_self THEN ns[n].core
    ELSE ns[n].leading \o ns[n].core \o ns[n].trailing

\* TextNode.ToMarkdown
TextToMarkdown(ns, n) ==
    IF ~IsDirty(ns, n) THEN ns[n].raw_original
    ELSE ns[n].leading \o ns[n].core \o ns[n].trailing

\* a link serialiser that always writes the link anew, without the padding
\* inside the parentheses
LinkToMarkdownNormal(ns, n) ==
    (IF ns[n].is_image THEN <<"!">> ELSE <<>>)
    \o <<"[">> \o ns[n].label_leading \o ns[n].label_core
    \o ns[n].label_trailing \o <<"]", "(">> \o ns[n].href_core \o <<")">>

\* LinkNode.ToMarkdown
LinkToMarkdown(ns, n) ==
    IF ~IsDirty(ns, n) THEN ns[n].raw_original
    ELSE (IF ns[n].is_image THEN <<"!">> ELSE <<>>)
         \o <<"[">> \o ns[n].label_leading \o ns[n].label_core
         \o ns[n].label_trailing \o <<"]", "(">>
         \o ns[n].href_leading \o ns[n].href_core \o ns[n].href_trailing
         \o <<")">>

\* CodeBlockNode.ToMarkdown
CodeBlockToMarkdown(ns, n) ==
    IF ~IsDirty(ns, n)
    THEN ns[n].opening_line_original \o ns[n].code_body_original
         \o ns[n].closing_line_original \o ns[n].block_suffix_original
    ELSE ns[n].opening_prefix \o ns[n].fence \o ns[n].info \o ns[n].opening_eol
         \o ns[n].code_body_current
         \o ns[n].closing_indent \o ns[n].closing_fence
         \o ns[n].closing_trailing \o ns[n].closing_eol
         \o ns[n].block_suffix_original

\* a heading line written anew in one form: the '#' run, a space, the title
HeadingLineNormal(nd) ==
    IF ~nd.dirty_self THEN nd.raw_line_original
    ELSE [k \in 1 .. nd.Level |-> "#"] \o <<" ">> \o nd.title_core \o <<"\n">>

\* the line of HeadingNode.ToMarkdown
HeadingLine(nd) ==
    IF ~nd.dirty_self THEN nd.raw_line_original
    ELSE nd.prefix \o nd.title_leading \o nd.title_core \o nd.title_trailing
         \o nd.line_suffix

\* whether ParagraphNode.ToMarkdown replays the captured content
ParagraphClean(ns, n) ==
    /\ ~ns[n].dirty_self
    /\ ~\E k \in 1 .. Len(ns[n].children) : IsDirty(ns, ns[n].children[k])

\* ToMarkdown of node n, by kind; d is the call depth left before Python's
\* recursion limit, which only a cyclic child graph exhausts
RECURSIVE ToMarkdownD(_, _, _)
ToMarkdownD(ns, n, d) ==
    LET nd == ns[n]
        RECURSIVE join(_)
        join(k) == IF k > Len(nd.children) THEN Ret(<<>>)
                   ELSE Cat(ToMarkdownD(ns, nd.children[k], d - 1), join(k + 1))
    IN  IF d = 0 THEN RecursionError
        ELSE CASE nd.Type = "Text" -> Ret(TextToMarkdown(ns, n))
               [] nd.Type \in {"Link", "Image"} -> Ret(LinkToMarkdown(ns, n))
               [] nd.Type = "CodeBlock" -> Ret(CodeBlockToMarkdown(ns, n))
               [] IsHeading(nd) ->
                      Cat(Ret(HeadingLine(nd) \o nd.block_suffix), join(1))
               [] nd.Type = "Paragraph" ->
                      Cat(IF ParagraphClean(ns, n) THEN Ret(nd.raw_original)
                          ELSE join(1),
                          Ret(nd.block_suffix))
               [] nd.Type = "Root" -> Cat(Ret(nd.leading_trivia), join(1))
               [] OTHER -> join(1)

ToMarkdown(ns, n) == ToMarkdownD(ns, n, Len(ns) + 1)

----------------------------------------------------------------------------
(* Helpers of Parse over the list of lines *)

\* "".join(ls[a:b])
Join(ls, a, b) == Flatten(SubSeq(ls, a + 1, b))

\* ghost: the offset in the text of the first character of line k
LineOff(ls, k) == Len(Join(ls, 0, k))

\* a blank-line loop that stops after one line
BlankRunOne(ls, j) == IF j < Len(ls) /\ is_blank(At(ls, j)) THEN 1 ELSE 0

\* the number of lines the loop "while i < len(lines) and is_blank(lines[i])"
\* consumes from index j
BlankRun(ls, j) ==
    Max({k \in 0 .. Len(ls) - j : \A m \in 0 .. k - 1 : is_blank(At(ls, j + m))})

\* the inner fence loop: the index of the first line from j that closes the
\* fence, or -1
FenceCloseIndex(ls, j, fence_char, fence_len) ==
    LET hits == {k \in j .. Len(ls) - 1 :
                    fence_close_match(At(ls, k), fence_char, fence_len)}
    IN  IF hits = {} THEN -1 ELSE Min(hits)

\* a rewind that lands one line before the fence-open line
RewindIndexFar(i_after, nbody) == i_after - nbody - 2

\* a rewind that lands one line after the fence-open line
RewindIndexShort(i_after, nbody) == i_after - nbody

\* "i = i - len(body_lines) - 1"
RewindIndex(i_after, nbody) == i_after - nbody - 1

\* the fence branch at line k: whether the line opens a fence, whether the
\* fence closes, and the values of i and len(body_lines) after the inner loop
FenceResult(ls, k, open, c) ==
    [open |-> open, closed |-> c # -1, close |-> c,
     i_after |-> IF c # -1 THEN c + 1 ELSE Len(ls),
     nbody |-> IF c # -1 THEN c - (k + 1) ELSE Len(ls) - (k + 1)]

FenceScanOf(ls, k, fm) ==
    FenceResult(ls, k, fm.ok,
                IF fm.ok
                THEN FenceCloseIndex(ls, k + 1, fm.fence[1], Len(fm.fence))
                ELSE -1)

FenceScan(ls, k) == FenceScanOf(ls, k, fence_open_match(At(ls, k)))

\* a paragraph loop that stops at blank lines only
ParaEndBlank(ls, j) ==
    LET stops == {k \in j .. Len(ls) - 1 : is_blank(At(ls, k))}
    IN  IF stops = {} THEN Len(ls) ELSE Min(stops)

\* the paragraph loop: the index of the first line from j that is blank, a
\* heading or a fence opener, or len(lines)
ParaEnd(ls, j) ==
    LET stops == {k \in j .. Len(ls) - 1 :
                     \/ is_blank(At(ls, k))
                     \/ heading_match(At(ls, k)).ok
                     \/ fence_open_match(At(ls, k)).ok}
    IN  IF stops = {} THEN Len(ls) ELSE Min(stops)

\* a heading branch that pops nothing
PopToNone(levels, level) == Len(levels)

\* a pop that leaves a heading of the same level on the stack
PopToLoose(levels, level) ==
    Max({k \in 0 .. Len(levels) : k = 0 \/ levels[k] <= level})

\* "while stack_levels and stack_levels[-1] >= level: pop": the number of
\* entries left on the stack
PopTo(levels, level) ==
    Max({k \in 0 .. Len(levels) : k = 0 \/ levels[k] < level})

\* a list index Python accepts
PyValid(ls, k) == k >= -Len(ls) /\ k < Len(ls)

PyAt(ls, k) == IF k < 0 THEN At(ls, k + Len(ls)) ELSE At(ls, k)

\* an attachment to the document, whatever headings are open
StackBottom(st) == st[1]

\* stack[-1]
StackTop(st) == st[Len(st)]

\* MarkdownNode._AppendChildParsed(child) on node p, where the objects news
\* (the child, then the nodes it owns) are new
AppendChildParsed(ns, p, news) ==
    [ns EXCEPT ![p].children = Append(@, Len(ns) + 1)]
    \o <<[news[1] EXCEPT !.parent = p]>> \o Tail(news)

\* ghost: lines a .. b-1 get class c; a line classified before keeps a mark
Classify(cl, a, b, c) ==
    [k \in 1 .. Len(cl) |->
        IF k - 1 >= a /\ k - 1 < b
        THEN IF cl[k] = "none" THEN c ELSE "twice"
        ELSE cl[k]]

----------------------------------------------------------------------------
(* Outcomes of an operation *)

NoErr == [type |-> "none", msg |-> <<>>]

NoOut == [ok |-> TRUE, s |-> <<"(no call)">>]

\* the base Text setter's error
UnsupportedText(kind) ==
    [type |-> "AttributeError",
     msg |-> <<kind, " does not support Text assignment">>]

\* ParagraphNode defines the Text property with a getter only: the
\* assignment is refused by the interpreter, with the message of its version
NoSetterErrors ==
    {[type |-> "AttributeError", msg |-> <<"can't set attribute">>],
     [type |-> "AttributeError", msg |-> <<"can't set attribute 'Text'">>],
     [type |-> "AttributeError",
      msg |-> <<"property 'Text' of '", "ParagraphNode", "' object has no setter">>]}

IndexError == [type |-> "IndexError", msg |-> <<"list index out of range">>]

KeyError == [type |-> "KeyError", msg |-> <<>>]

RecursionRaised == [type |-> "RecursionError", msg |-> <<>>]

\* the asserts of validate
AssertionError ==
    [type |-> "AssertionError", msg |-> <<"mardownlint should guarentee this">>]

\* str + NodeType: the enumeration is no str
TypeError ==
    [type |-> "TypeError",
     msg |-> <<"can only concatenate str (not ", "NodeType", ") to str">>]

\* a call that raised returns nothing
Raised == [ok |-> FALSE, s |-> <<>>]

Call(name, node, value) == [name |-> name, node |-> node, value |-> value]

----------------------------------------------------------------------------
(* Bounds and inputs *)

MaxLines == 3

MaxHeadings == 4

\* the most characters of a text given to the inline scanner
MaxInline == 5

MaxOps == 2

\* the lines the parsed texts are made of: blank lines, a space before a
\* bare carriage return, headings, fence lines, paragraph lines, with and
\* without a line ending
MenuLines ==
    {<<"\n">>,
     <<" ", "\r", "\n">>,
     <<" ", "\r">>,
     <<"#", " ", "A", "\n">>,
     <<"#", "#", " ", "B", " ", "\n">>,
     <<Backtick, Backtick, Backtick, "\n">>,
     <<Backtick, Backtick, Backtick, Backtick, "p", "y", "\n">>,
     <<" ", "~", "~", "~", "\n">>,
     <<"a", "\n">>,
     <<"[", "d", "]", "(", "h", ")">>,
     <<"#", "#", "#", "#", "#", "#", "#", " ", "x", "\n">>}

\* heading lines of three levels
HeadingLines ==
    {<<"#", " ", "A", "\n">>,
     <<"#", "#", " ", "B", "\n">>,
     <<"#", "#", "#", " ", "C", "\n">>,
     <<"#", "#", " ", "D", "\n">>}

\* the documents that are edited
EditDocs ==
    {<<"#", " ", "T", " ", "\n", "\n", "a", " ", "[", "d", "]", "(", " ", "h", " ", ")", " ", "b", "\n">>,
     <<Backtick, Backtick, Backtick, "p", "y", "\n", "c", "\n", Backtick, Backtick, Backtick, "\n", "\n", "!", "[", "i", "]", "(", "p", ")", "\n">>,
     <<"p", "\n", "\n", "q", " ", "[", "e", "]", "(", "g", ")", "\n">>,
     <<"~", "~", "~", "\n", "~", "~", "~", "\r", "x">>,
     <<" ", "#", "#", "\t", " ", "H", " ", "\r", "\n", "\n",
       "#", "#", "#", " ", "K", "\n", "k", "\n">>}

\* the values assigned through the setters
Values ==
    {<<"x">>,
     <<" ", "y", "\n">>}

\* the characters the inline scanner tells apart
InlineChars == {"[", "]", "(", ")", "!"}

\* 'See [docs](http://x) and ![img](y.png).'
InlineExample ==
    <<"S", "e", "e", " ", "[", "d", "o", "c", "s", "]", "(", "h", "t", "t", "p",
      ":", "/", "/", "x", ")", " ", "a", "n", "d", " ", "!", "[", "i", "m", "g",
      "]", "(", "y", ".", "p", "n", "g", ")", ".">>

\* a paragraph of three lines, with a label that spans a line ending
InlineMultiline ==
    <<"a", "\n", "[", "b", "\n", "]", "(", "c", ")", "\n",
      "!", "[", "d", "]", "(", "e", ")">>

\* the texts of at most MaxInline inline characters, and the examples
InlineTexts ==
    UNION {[1 .. k -> InlineChars] : k \in 0 .. MaxInline}
        \cup {InlineExample, InlineMultiline}

\* the most items of a gistpp file given to validate
MaxGistItems == 5

\* the heading-2 titles of a gistpp file
Behavior == <<"B", "e", "h", "a", "v", "i", "o", "r">>

Tests == <<"T", "e", "s", "t", "s">>

Dependencies == <<"D", "e", "p", "e", "n", "d", "e", "n", "c", "i", "e", "s">>

\* the items gistpp files are made of: the title, a Behavior heading, a
\* heading 2 that is not allowed, a heading 3, a paragraph, a code block
GistItems ==
    {<<"#", " ", "G", "\n">>,
     <<"#", "#", " ">> \o Behavior \o <<"\n">>,
     <<"#", "#", " ", "N", "\n">>,
     <<"#", "#", "#", " ", "S", "\n">>,
     <<"p", "\n">>,
     <<Backtick, Backtick, Backtick, "\n", Backtick, Backtick, Backtick, "\n">>}

\* the file types given to validate
FileTypes == {"gistpp", "md"}

\* the most characters of a string given to _split_trivia
MaxTrivia == 5

\* a space, a tab, a line ending and a letter
TriviaChars == {" ", "\t", "\n", "a"}

TriviaTexts == UNION {[1 .. k -> TriviaChars] : k \in 0 .. MaxTrivia}

\* the sequences of at most n elements of S, concatenated
Texts(S, n) == UNION {{Flatten(f) : f \in [1 .. k -> S]} : k \in 0 .. n}

MenuTexts == Texts(MenuLines, MaxLines) \cup Texts(HeadingLines, MaxHeadings)

GistTexts == Texts(GistItems, MaxGistItems)

----------------------------------------------------------------------------
(* State machine *)

\* MarkdownDocument(): a document built from no text
Init ==
    /\ text = <<>>
    /\ lines = <<>>
    /\ i = 0
    /\ pc = "ready"
    /\ stack = <<>>
    /\ stack_levels = <<>>
    /\ nodes = <<MarkdownDocument>>
    /\ span = <<<<0, 0>>>>
    /\ err = NoErr
    /\ op = Call("MarkdownDocument", Root, <<>>)
    /\ out = NoOut
    /\ cls = <<>>
    /\ mutated = {}
    /\ nparse = 0
    /\ nops = 0

\* the loop condition "while i < len(lines)" after an iteration left index k
LoopPc(ls, k) == IF k < Len(ls) THEN "loop" ELSE "ready"

\* Parse(markdown) up to the first test of the main loop: the children and
\* the leading trivia are reset, the leading blank lines are consumed, the
\* stack holds the document.  The nodes of the previous tree are dropped
\* with the child list that referenced them.
Parse(markdown) ==
    LET ls == splitlines(markdown)
        k  == BlankRun(ls, 0)
    IN  /\ pc = "ready"
        /\ nparse = 0 \/ nops < MaxOps
        /\ text' = markdown
        /\ lines' = ls
        /\ i' = k
        /\ pc' = LoopPc(ls, k)
        /\ stack' = <<Root>>
        /\ stack_levels' = <<0>>
        /\ nodes' = <<[nodes[Root] EXCEPT !.children = <<>>,
                                          !.leading_trivia = Join(ls, 0, k)]>>
        /\ span' = <<<<0, Len(markdown)>>>>
        /\ err' = NoErr
        /\ op' = Call("Parse", Root, markdown)
        /\ out' = NoOut
        /\ cls' = Classify([j \in 1 .. Len(ls) |-> "none"], 0, k, "leading")
        /\ mutated' = mutated \cap {Root}
        /\ nparse' = nparse + 1
        /\ nops' = IF nparse = 0 THEN 0 ELSE nops + 1

\* FromString(t) / Parse(t) for a text made of menu lines, on a new document
ParseMenuText == \E t \in MenuTexts : nparse = 0 /\ Parse(t)

\* FromString(t) / Parse(t) for one of the edited documents
ParseDoc == \E t \in EditDocs : Parse(t)

ParseFrame == UNCHANGED <<text, lines, op, out, mutated, nparse, nops>>

\* the index the heading and paragraph branches work on after fence scan f
\* of line i: i, or the fence-open line the parser rewinds to
CurIndexOf(f) == IF f.open THEN RewindIndex(f.i_after, f.nbody) ELSE i

CurIndex == CurIndexOf(FenceScan(lines, i))

\* the fence branch after the inner loop found closing line f.close and the
\* suffix loop stopped at line j
CodeBlockAttach(f, j) ==
    /\ nodes' = AppendChildParsed(nodes, StackTop(stack),
            <<CodeBlockNode(At(lines, i), Join(lines, i + 1, f.close),
                            At(lines, f.close), Join(lines, f.i_after, j))>>)
    /\ span' = Append(span, <<LineOff(lines, i), LineOff(lines, j)>>)
    /\ cls' = Classify(Classify(Classify(Classify(cls,
                  i, i + 1, "fence-open"), i + 1, f.close, "code"),
                  f.close, f.i_after, "fence-close"), f.i_after, j, "suffix")
    /\ i' = j
    /\ pc' = LoopPc(lines, j)
    /\ UNCHANGED <<stack, stack_levels, err>>
    /\ ParseFrame

CodeBlockBranch(f) ==
    /\ f.open /\ f.closed
    /\ CodeBlockAttach(f, f.i_after + BlankRun(lines, f.i_after))

\* one iteration of the main loop: the fence branch, with a closing fence
ParseCodeBlock == pc = "loop" /\ CodeBlockBranch(FenceScan(lines, i))

\* the heading branch for the match hm of line c, after the suffix loop
\* stopped at line j and the pop loop left keep entries on the stack
HeadingAttach(c, hm, level, j, keep) ==
    /\ IF keep = 0 \/ level \notin DOMAIN HeadingTypes
       THEN /\ err' = IF keep = 0 THEN IndexError ELSE KeyError
            /\ pc' = "ready"
            /\ UNCHANGED <<stack, stack_levels, nodes, span, cls>>
       ELSE /\ nodes' = AppendChildParsed(nodes, stack[keep],
                   <<HeadingNode(level, PyAt(lines, c),
                                 hm.indent \o hm.hashes \o hm.space, hm.title,
                                 hm.trailing \o hm.eol, Join(lines, c + 1, j))>>)
            /\ stack' = Append(SubSeq(stack, 1, keep), Len(nodes) + 1)
            /\ stack_levels' = Append(SubSeq(stack_levels, 1, keep), level)
            /\ span' = Append(span, <<LineOff(lines, c), LineOff(lines, j)>>)
            /\ cls' = Classify(Classify(cls, c, c + 1, "heading"),
                               c + 1, j, "suffix")
            /\ pc' = LoopPc(lines, j)
            /\ err' = err
    /\ i' = j
    /\ ParseFrame

HeadingMatched(c, hm) ==
    /\ hm.ok
    /\ HeadingAttach(c, hm, Len(hm.hashes), c + 1 + BlankRun(lines, c + 1),
                     PopTo(stack_levels, Len(hm.hashes)))

HeadingBranch(f) ==
    /\ ~(f.open /\ f.closed)
    /\ PyValid(lines, CurIndexOf(f))
    /\ HeadingMatched(CurIndexOf(f), heading_match(PyAt(lines, CurIndexOf(f))))

\* one iteration of the main loop: the heading branch
ParseHeading == pc = "loop" /\ HeadingBranch(FenceScan(lines, i))

\* the paragraph branch for the lines c .. e-1, after the suffix loop stopped
\* at line j; sps are the inline spans of the paragraph's raw text
ParagraphAttach(c, e, j, raw_para, sps) ==
    /\ nodes' = AppendChildParsed(nodes, StackTop(stack),
                    ParagraphNode(raw_para, Join(lines, e, j), Len(nodes) + 1))
    /\ span' = span \o <<<<LineOff(lines, c), LineOff(lines, j)>>>>
               \o [k \in 1 .. Len(sps) |->
                      <<LineOff(lines, c) + sps[k].start,
                        LineOff(lines, c) + sps[k].end>>]
    /\ cls' = Classify(Classify(cls, c, e, "paragraph"), e, j, "suffix")
    /\ i' = j
    /\ pc' = LoopPc(lines, j)
    /\ err' = err

ParagraphLines(c, e, raw_para) ==
    ParagraphAttach(c, e, e + BlankRun(lines, e), raw_para,
                    inline_spans(raw_para, 0, 0, <<>>))

ParagraphAt(c, e) ==
    ParagraphLines(c, e, PyAt(lines, c) \o Join(lines, c + 1, e))

ParagraphBranch(f, c) ==
    /\ ~(f.open /\ f.closed)
    /\ IF ~PyValid(lines, c)
       THEN /\ err' = IndexError
            /\ pc' = "ready"
            /\ UNCHANGED <<i, nodes, span, cls>>
       ELSE /\ ~heading_match(PyAt(lines, c)).ok
            /\ ParagraphAt(c, ParaEnd(lines, c + 1))
    /\ UNCHANGED <<stack, stack_levels>>
    /\ ParseFrame

\* one iteration of the main loop: the paragraph branch, reached by a line
\* that is no heading, directly or after the rewind from an unclosed fence
ParseParagraph == pc = "loop" /\ ParagraphBranch(FenceScan(lines, i), CurIndex)

ParseStep == ParseCodeBlock \/ ParseHeading \/ ParseParagraph

----------------------------------------------------------------------------
(* The public API on a parsed document *)

Ids == 1 .. Len(nodes)

TextKinds == {"Text", "Link", "Image", "CodeBlock"} \cup {HeadingTypes[l] : l \in 1 .. 6}

\* LinkNode.ToPlainText / TextNode.ToPlainText, used by ParagraphNode.Text
ToPlainText(ns, n) ==
    IF ns[n].Type \in {"Link", "Image"}
    THEN ns[n].label_leading \o ns[n].label_core \o ns[n].label_trailing
    ELSE IF ns[n].Type = "Text" THEN TextToMarkdown(ns, n)
    ELSE strip_linebreaks_only(ToMarkdown(ns, n).s)

\* the Text getter, by kind
GetText(ns, n) ==
    LET nd == ns[n]
    IN  CASE nd.Type = "Text" -> nd.core
          [] nd.Type \in {"Link", "Image"} -> nd.label_core
          [] nd.Type = "CodeBlock" -> nd.code_body_current
          [] IsHeading(nd) -> nd.title_core
          [] nd.Type = "Paragraph" ->
                 strip(Flatten([k \in 1 .. Len(nd.children) |->
                                   ToPlainText(ns, nd.children[k])]))
          [] OTHER -> <<>>

\* the node after the Text setter of its kind ran
WithText(nd, value) ==
    CASE nd.Type = "Text" -> MarkDirty([nd EXCEPT !.core = strip(value)])
      [] nd.Type \in {"Link", "Image"} ->
             MarkDirty([nd EXCEPT !.label_core = strip(value)])
      [] nd.Type = "CodeBlock" ->
             MarkDirty([nd EXCEPT !.code_body_current = value])
      [] IsHeading(nd) -> MarkDirty([nd EXCEPT !.title_core = strip(value)])

\* an Href setter that stores the value as given
WithHrefRaw(nd, value) == [nd EXCEPT !.href_core = value, !.dirty_self = TRUE]

\* LinkNode.Href setter
WithHref(nd, value) == MarkDirty([nd EXCEPT !.href_core = strip(value)])

\* CodeBlockNode.InfoString setter
WithInfoString(nd, value) ==
    MarkDirty([nd EXCEPT !.info = IF strip(value) # <<>>
                                  THEN <<" ">> \o strip(value) ELSE <<>>])

EditFrame ==
    UNCHANGED <<text, lines, i, pc, stack, stack_levels, cls, nparse>>

CanEdit == pc = "ready" /\ nparse >= 1 /\ nops < MaxOps

\* n.Text = value
SetText(n, value) ==
    /\ CanEdit
    /\ op' = Call("SetText", n, value)
    /\ nops' = nops + 1
    /\ out' = NoOut
    /\ IF nodes[n].Type \in TextKinds
       THEN /\ nodes' = [nodes EXCEPT ![n] = WithText(@, value)]
            /\ mutated' = mutated \cup {n}
            /\ err' = NoErr
       ELSE /\ err' \in IF nodes[n].Type = "Paragraph" THEN NoSetterErrors
                        ELSE {UnsupportedText(nodes[n].Type)}
            /\ UNCHANGED <<nodes, mutated>>
    /\ UNCHANGED span
    /\ EditFrame

\* n.Href = value, on a link or an image
SetHref(n, value) ==
    /\ CanEdit
    /\ nodes[n].Type \in {"Link", "Image"}
    /\ op' = Call("SetHref", n, value)
    /\ nops' = nops + 1
    /\ out' = NoOut
    /\ nodes' = [nodes EXCEPT ![n] = WithHref(@, value)]
    /\ mutated' = mutated \cup {n}
    /\ err' = NoErr
    /\ UNCHANGED span
    /\ EditFrame

\* n.InfoString = value, on a code block
SetInfoString(n, value) ==
    /\ CanEdit
    /\ nodes[n].Type = "CodeBlock"
    /\ op' = Call("SetInfoString", n, value)
    /\ nops' = nops + 1
    /\ out' = NoOut
    /\ nodes' = [nodes EXCEPT ![n] = WithInfoString(@, value)]
    /\ mutated' = mutated \cup {n}
    /\ err' = NoErr
    /\ UNCHANGED span
    /\ EditFrame

\* ns with c taken out of every child list
Detached(ns, c) ==
    [k \in 1 .. Len(ns) |->
        [ns[k] EXCEPT !.children = SelectSeq(@, LAMBDA x : x # c)]]

\* an AddChild that moves the child: it leaves the list that held it
AddChildMove(ns, p, c) ==
    [Detached(ns, c) EXCEPT ![c].parent = p,
                            ![p].children = Append(@, c),
                            ![p] = MarkDirty(@)]

\* MarkdownNode.AddChild(child) on node p
AddChildTo(ns, p, c) ==
    [ns EXCEPT ![c].parent = p,
               ![p].children = Append(@, c),
               ![p] = MarkDirty(@)]

\* p.AddChild(c) for a node c of the document
AddChild(p, c) ==
    /\ CanEdit
    /\ op' = Call("AddChild", p, <<c>>)
    /\ nops' = nops + 1
    /\ out' = NoOut
    /\ nodes' = AddChildTo(nodes, p, c)
    /\ mutated' = mutated \cup {p}
    /\ err' = NoErr
    /\ UNCHANGED span
    /\ EditFrame

\* p.AddChild(TextNode(raw)) for a node built by the caller
AddNewChild(p, raw) ==
    /\ CanEdit
    /\ op' = Call("AddChild", p, <<Len(nodes) + 1>>)
    /\ nops' = nops + 1
    /\ out' = NoOut
    /\ nodes' = AddChildTo(Append(nodes, TextNode(raw)), p, Len(nodes) + 1)
    /\ span' = Append(span, <<-1, -1>>)
    /\ mutated' = mutated \cup {p}
    /\ err' = NoErr
    /\ EditFrame

\* the calls that serialise a node
Serializers == {"ToMarkdown", "ToString", "SaveToString"}

\* what serialiser name returns when ToMarkdown returns r
Serialized(name, r) ==
    IF name = "ToString" /\ r.ok THEN Ret(strip_linebreaks_only(r.s)) ELSE r

\* a store in which a serialiser call has reset every dirty marker
AfterSerializeClean(ns) == [k \in 1 .. Len(ns) |-> [ns[k] EXCEPT !.dirty_self = FALSE]]

\* the node store after a serialiser call: the serialisers assign no field
AfterSerialize(ns) == ns

\* a serialiser can be called while calls are left, and again after a
\* serialiser call
CanSerialize ==
    pc = "ready" /\ nparse >= 1 /\ (nops < MaxOps \/ op.name \in Serializers)

\* n.<name>() returning r
CallSerializer(n, name, r) ==
    /\ CanSerialize
    /\ op' = Call(name, n, <<>>)
    /\ nops' = IF op.name \in Serializers THEN nops ELSE nops + 1
    /\ out' = r
    /\ err' = IF r.ok THEN NoErr ELSE RecursionRaised
    /\ nodes' = AfterSerialize(nodes)
    /\ UNCHANGED <<span, mutated>>
    /\ EditFrame

\* n.ToMarkdown()
CallToMarkdown(n) ==
    CallSerializer(n, "ToMarkdown", Serialized("ToMarkdown", ToMarkdown(nodes, n)))

\* n.ToString()
CallToString(n) ==
    CallSerializer(n, "ToString", Serialized("ToString", ToMarkdown(nodes, n)))

\* n.SaveToString()
CallSaveToString(n) ==
    CallSerializer(n, "SaveToString", Serialized("SaveToString", ToMarkdown(nodes, n)))

\* MarkdownNode.Walk from node n: the ids in the order they are yielded; d is
\* the depth left before Python's recursion limit
RECURSIVE WalkD(_, _, _)
WalkD(ns, n, d) ==
    LET RECURSIVE join(_)
        join(k) == IF k > Len(ns[n].children) THEN Ret(<<>>)
                   ELSE Cat(WalkD(ns, ns[n].children[k], d - 1), join(k + 1))
    IN  IF d = 0 THEN RecursionError ELSE Cat(Ret(<<n>>), join(1))

Walk(ns, n) == WalkD(ns, n, Len(ns) + 1)

\* the nodes of walk w whose Type is node_type
OfType(ns, w, node_type) ==
    IF w.ok THEN Ret(SelectSeq(w.s, LAMBDA m : ns[m].Type = node_type)) ELSE w

\* MarkdownNode.FindAll(node_type) from node n
FindAll(ns, n, node_type) == OfType(ns, Walk(ns, n), node_type)

\* the kinds FindAll is called with
FindKinds == {"Paragraph", "Text", "Link", "Heading1"}

\* a call that reads the tree and returns r
CallReader(n, name, value, r) ==
    /\ CanEdit
    /\ op' = Call(name, n, value)
    /\ nops' = nops + 1
    /\ out' = r
    /\ err' = IF r.ok THEN NoErr ELSE RecursionRaised
    /\ UNCHANGED <<nodes, span, mutated>>
    /\ EditFrame

\* list(n.Walk())
CallWalk(n) == CallReader(n, "Walk", <<>>, Walk(nodes, n))

\* list(n.FindAll(node_type))
CallFindAll(n, node_type) ==
    CallReader(n, "FindAll", <<node_type>>, FindAll(nodes, n, node_type))

LinkIds == {n \in Ids : nodes[n].Type \in {"Link", "Image"}}

CodeBlockIds == {n \in Ids : nodes[n].Type = "CodeBlock"}

\* the values a setter of node n is called with: the fixed ones, and the
\* value its getter returns
SetValues(n) == Values \cup {GetText(nodes, n)}

Edit ==
    \/ \E n \in Ids : \E v \in SetValues(n) : SetText(n, v)
    \/ \E n \in LinkIds : \E v \in Values \cup {nodes[n].href_core} : SetHref(n, v)
    \/ \E n \in CodeBlockIds : \E v \in Values \cup {strip(nodes[n].info)} : SetInfoString(n, v)
    \/ \E p \in Ids : \E c \in {Root, Len(nodes)} : AddChild(p, c)
    \/ \E p \in Ids : AddNewChild(p, <<"z">>)
    \/ \E n \in Ids : CallToMarkdown(n)
    \/ \E n \in Ids : CallToString(n)
    \/ \E n \in Ids : CallSaveToString(n)
    \/ \E n \in Ids : CallWalk(n)
    \/ \E n \in Ids : \E node_type \in FindKinds : CallFindAll(n, node_type)

\* a document parsed from menu lines
NextParse == ParseMenuText \/ ParseStep

SpecParse == Init /\ [][NextParse]_vars

\* a document parsed, edited and parsed again
Next == ParseDoc \/ ParseStep \/ Edit

Spec == Init /\ [][Next]_vars

\* FromString(t) for a text of inline characters, on a new document
ParseInlineText == \E t \in InlineTexts : nparse = 0 /\ Parse(t)

\* a document parsed from inline characters: every block is a paragraph
NextInline == ParseInlineText \/ ParseParagraph

SpecInline == Init /\ [][NextInline]_vars

\* the triple _split_trivia returns
TriviaTuple(t) == <<t.leading, t.core, t.trailing>>

\* _split_trivia(raw)
CallSplitTrivia ==
    \E raw \in TriviaTexts :
        /\ pc = "ready" /\ nparse = 0 /\ nops = 0
        /\ op' = Call("_split_trivia", None, raw)
        /\ out' = [ok |-> TRUE, s |-> TriviaTuple(split_trivia(raw))]
        /\ nops' = nops + 1
        /\ UNCHANGED <<nodes, span, mutated, err>>
        /\ EditFrame

SpecTrivia == Init /\ [][CallSplitTrivia]_vars

----------------------------------------------------------------------------
(* gistpplib.Validator.validate *)

\* a returned boolean after the printed diagnostics
Returned(b, printed) ==
    [ok |-> TRUE, s |-> <<IF b THEN "True" ELSE "False">> \o printed]

AllowedH2 == {Behavior, Tests, Dependencies}

\* the children of heading 1 h at which the first loop stops: neither a
\* paragraph nor a heading 2 with an allowed title
BadH2(ns, h) ==
    {k \in 1 .. Len(ns[h].children) :
        /\ ns[ns[h].children[k]].Type # "Paragraph"
        /\ \/ ns[ns[h].children[k]].Type # "Heading2"
           \/ GetText(ns, ns[h].children[k]) \notin AllowedH2}

\* what the first loop prints at child c
H2Message(ns, c) ==
    IF ns[c].Type # "Heading2"
    THEN <<"GistPP File layout, only text and heading 2 inside heading 1">>
    ELSE <<"Invalid heading 2: ">> \o GetText(ns, c)
         \o <<" Only ", "Behavior, Tests, Dependencies", " allowed">>

\* subHeadings[name]: the last heading 2 of that title below h, or None
SubHeading(ns, h, name) ==
    LET ks == {k \in 1 .. Len(ns[h].children) :
                  /\ ns[ns[h].children[k]].Type = "Heading2"
                  /\ GetText(ns, ns[h].children[k]) = name}
    IN  IF ks = {} THEN None ELSE ns[h].children[Max(ks)]

\* the children of the Behavior heading b of a kind the second loop
\* reports: the report concatenates a str and a NodeType
BadBehavior(ns, b) ==
    {k \in 1 .. Len(ns[b].children) :
        ns[ns[b].children[k]].Type \notin {"Heading3", "List", "Paragraph"}}

HasKind(ns, b, kind) ==
    \E k \in 1 .. Len(ns[b].children) : ns[ns[b].children[k]].Type = kind

\* lines 61-86, for the heading 1 h whose children passed the first loop
ValidateBehavior(ns, b) ==
    IF b = None
    THEN [out |-> Returned(FALSE, <<"All gistpp files must have a Behavior heading2">>),
          err |-> NoErr]
    ELSE IF BadBehavior(ns, b) # {}
    THEN [out |-> Raised, err |-> TypeError]
    ELSE IF HasKind(ns, b, "Heading3")
            /\ (HasKind(ns, b, "List") \/ HasKind(ns, b, "Paragraph"))
    THEN [out |-> Returned(FALSE,
              <<"Behavior heading2 must have either subheadings OR text. Not both.">>),
          err |-> NoErr]
    ELSE [out |-> Returned(TRUE, <<>>), err |-> NoErr]

\* lines 36-86: the checks on the document built from spec_content
ValidateGistpp(ns) ==
    IF Len(ns[Root].children) # 1 THEN [out |-> Raised, err |-> AssertionError]
    ELSE IF ns[ns[Root].children[1]].Type # "Heading1"
    THEN [out |-> Raised, err |-> AssertionError]
    ELSE IF BadH2(ns, ns[Root].children[1]) # {}
    THEN [out |-> Returned(FALSE,
              H2Message(ns, ns[ns[Root].children[1]].children[
                                Min(BadH2(ns, ns[Root].children[1]))])),
          err |-> NoErr]
    ELSE ValidateBehavior(ns, SubHeading(ns, ns[Root].children[1], Behavior))

\* validate(spec_content, file_type), for the outcome lint_ok of the scan
\* by the markdown linter
ValidateOf(ns, file_type, lint_ok) ==
    IF ~lint_ok THEN [out |-> Returned(FALSE, <<"(scan failures)">>), err |-> NoErr]
    ELSE IF file_type # "gistpp" THEN [out |-> Returned(TRUE, <<>>), err |-> NoErr]
    ELSE ValidateGistpp(ns)

\* validate(text, file_type): MarkdownDocument(spec_content) of line 36 is
\* the tree the parse built from the text
Validate(file_type, lint_ok) ==
    /\ pc = "ready" /\ nparse = 1 /\ nops = 0
    /\ op' = Call("validate", Root, <<file_type, lint_ok>>)
    /\ out' = ValidateOf(nodes, file_type, lint_ok).out
    /\ err' = ValidateOf(nodes, file_type, lint_ok).err
    /\ nops' = nops + 1
    /\ UNCHANGED <<nodes, span, mutated>>
    /\ EditFrame

\* the document of a gistpp file
ParseGist == \E t \in GistTexts : nparse = 0 /\ Parse(t)

NextValidate ==
    \/ ParseGist
    \/ ParseStep
    \/ \E file_type \in FileTypes : \E lint_ok \in BOOLEAN : Validate(file_type, lint_ok)

SpecValidate == Init /\ [][NextValidate]_vars

----------------------------------------------------------------------------
(* Ghost notions the properties are stated with *)

\* the nodes reachable from the nodes of F through child lists
RECURSIVE Reach(_, _, _)
Reach(ns, F, seen) ==
    IF F = {} THEN seen
    ELSE LET kids == UNION {{ns[n].children[k] : k \in 1 .. Len(ns[n].children)} : n \in F}
         IN  Reach(ns, kids \ seen, seen \cup kids)

Descendants(ns, n) == Reach(ns, {n}, {})

Subtree(ns, n) == {n} \cup Descendants(ns, n)

\* the number of places n takes in the child lists of ns
Occurrences(ns, n) ==
    Cardinality({<<p, k>> \in (1 .. Len(ns)) \X (1 .. Len(ns)) :
                    k <= Len(ns[p].children) /\ ns[p].children[k] = n})

\* where the section of parsed heading h ends in the text: at the next
\* heading of the same or a lower level, or at the end
SectionEnd(h) ==
    Min({Len(text)} \cup
        {span[m][1] : m \in {g \in Ids : /\ g > h
                                         /\ span[g][1] >= 0
                                         /\ IsHeading(nodes[g])
                                         /\ nodes[g].Level <= nodes[h].Level}})

\* the source text a node was built from: the slice of the parsed text, or
\* the raw argument of a node the caller built
OrigSlice(n) ==
    IF n = Root THEN text
    ELSE IF span[n][1] < 0 THEN nodes[n].raw_original
    ELSE IF IsHeading(nodes[n]) THEN Slice(text, span[n][1], SectionEnd(n))
    ELSE Slice(text, span[n][1], span[n][2])

\* the index of the line that starts at offset o of the text
LineAtOff(o) == CHOOSE k \in 0 .. Len(lines) : LineOff(lines, k) = o

\* the fence rule in words: after optional spaces and tabs the line starts
\* with at least n characters ch
StartsWithFence(line, ch, n) ==
    \E a \in 0 .. Len(line) :
        /\ \A k \in 1 .. a : line[k] \in SpaceTab
        /\ a + n <= Len(line)
        /\ \A k \in a + 1 .. a + n : line[k] = ch

\* line k opens a fence that no later line closes
Unterminated(k) ==
    /\ fence_open_match(At(lines, k)).ok
    /\ ~\E m \in k + 1 .. Len(lines) - 1 :
           StartsWithFence(At(lines, m), fence_open_match(At(lines, k)).fence[1],
                           Len(fence_open_match(At(lines, k)).fence))

Range(f) == {f[x] : x \in DOMAIN f}

LineClasses ==
    {"leading", "suffix", "fence-open", "code", "fence-close", "heading", "paragraph"}

----------------------------------------------------------------------------
(* Properties *)

\* C1: a document built from text t and serialised without any mutation
\* returns exactly t: the leading trivia followed by the top-level children.
C1_RoundTrip ==
    pc = "ready" => ToMarkdown(nodes, Root) = Ret(text)

\* C1 witness: a parsed text with leading blank lines, an unterminated fence
\* and no final newline
C1_Witness ==
    /\ pc = "ready" /\ nparse = 1
    /\ nodes[Root].leading_trivia # <<>>
    /\ text[Len(text)] \notin LineBreaks
    /\ \E k \in 0 .. Len(lines) - 1 : Unterminated(k) /\ cls[k + 1] = "paragraph"
    /\ ToMarkdown(nodes, Root) = Ret(text)

\* the absolute offsets <<a, b>> of the href core of parsed link n in the text
HrefCoreSpan(n) ==
    <<span[n][1] + (IF nodes[n].is_image THEN 1 ELSE 0) + 1
        + Len(nodes[n].label_leading) + Len(nodes[n].label_core)
        + Len(nodes[n].label_trailing) + 2 + Len(nodes[n].href_leading),
      span[n][2] - 1 - Len(nodes[n].href_trailing)>>

\* s with the characters at offsets sp[1] .. sp[2]-1 replaced by v
Replace(s, sp, v) == Slice(s, 0, sp[1]) \o v \o Slice(s, sp[2], Len(s))

\* the only call made on the freshly parsed document is an Href assignment
OneHrefAssigned == pc = "ready" /\ nparse = 1 /\ nops = 1 /\ op.name = "SetHref"

\* C2 as stated: after one Href assignment the output is the input with the
\* href core span replaced by the assigned value.
C2_Original ==
    OneHrefAssigned =>
        ToMarkdown(nodes, Root) = Ret(Replace(text, HrefCoreSpan(op.node), op.value))

\* C2 amended: after one Href assignment the output is the input with the
\* href core span replaced by the assigned value stripped of surrounding
\* whitespace; every other byte is the input's.
C2_MinimalDiff ==
    OneHrefAssigned =>
        ToMarkdown(nodes, Root) =
            Ret(Replace(text, HrefCoreSpan(op.node), strip(op.value)))

\* C2 witness: an href whose parentheses hold padding is assigned a value
\* with surrounding whitespace, and the output differs from the input
C2_Witness ==
    /\ OneHrefAssigned
    /\ strip(op.value) # op.value
    /\ nodes[op.node].href_leading # <<>>
    /\ nodes[op.node].href_trailing # <<>>
    /\ ToMarkdown(nodes, Root) # Ret(text)
    /\ ToMarkdown(nodes, Root) =
           Ret(Replace(text, HrefCoreSpan(op.node), strip(op.value)))

\* the nearest heading before h of a level below h's, or the document
NearestLower(h) ==
    LET c == {g \in 1 .. h - 1 : IsHeading(nodes[g])
                                 /\ nodes[g].Level < nodes[h].Level}
    IN  IF c = {} THEN Root ELSE Max(c)

\* C3: every parsed heading is a child of the nearest preceding heading of a
\* strictly lower level, or of the root, appended after that node's earlier
\* children; headings of equal level are siblings.
C3_HeadingNesting ==
    \A h \in Ids : IsHeading(nodes[h]) =>
        /\ nodes[h].parent = NearestLower(h)
        /\ Occurrences(nodes, h) = 1
        /\ \E k \in 1 .. Len(nodes[NearestLower(h)].children) :
              /\ nodes[NearestLower(h)].children[k] = h
              /\ \A j \in 1 .. k - 1 : nodes[NearestLower(h)].children[j] < h

\* C3 witness: "# A / ## B / ### C / ## D" parsed to A -> [B -> [C], D]
C3_Witness ==
    /\ pc = "ready"
    /\ text = <<"#", " ", "A", "\n", "#", "#", " ", "B", "\n",
                "#", "#", "#", " ", "C", "\n", "#", "#", " ", "D", "\n">>
    /\ nodes[Root].children = <<2>>
    /\ nodes[2].children = <<3, 5>>
    /\ nodes[3].children = <<4>>
    /\ nodes[4].children = <<>>
    /\ nodes[5].parent = 2 /\ nodes[5].Level = 2

\* the state between two calls on a document that has been parsed
Parsed == pc = "ready" /\ nparse >= 1

\* no edit was made on n or below it
Untouched(n) == Subtree(nodes, n) \cap mutated = {}

\* C4 as stated: a node serialises to its original source slice if and only
\* if neither it nor a descendant was mutated.
C4_Original ==
    Parsed => \A n \in Ids :
        (ToMarkdown(nodes, n) = Ret(OrigSlice(n))) <=> Untouched(n)

\* C4 amended: a node serialises to its original source slice if neither it
\* nor a descendant was mutated; a mutated node may serialise to the same
\* bytes, as when a field is assigned the value it already holds.
C4_VerbatimIfUntouched ==
    Parsed => \A n \in Ids :
        Untouched(n) => ToMarkdown(nodes, n) = Ret(OrigSlice(n))

\* C4 witness: after an edit that changed the document's output, a paragraph
\* with inline children that was not edited still serialises to its slice
C4_Witness ==
    /\ Parsed /\ nops >= 1 /\ mutated # {}
    /\ ToMarkdown(nodes, Root) # Ret(text)
    /\ \E n \in Ids : /\ nodes[n].Type = "Paragraph"
                      /\ nodes[n].children # <<>>
                      /\ Untouched(n)
                      /\ ToMarkdown(nodes, n) = Ret(OrigSlice(n))

\* C5: once IsDirty is true of a node it stays true after every later
\* operation: the setters, AddChild, Parse and the serialisers.  Across Parse
\* the document is the node that persists.
C5_DirtyMonotone ==
    [][\A n \in Ids :
          (n = Root \/ nparse' = nparse) /\ IsDirty(nodes, n)
              => IsDirty(nodes', n)]_vars

\* the well-formedness of the node graph
WellFormed(ns) ==
    /\ ns[Root].parent = None
    /\ \A n \in 1 .. Len(ns) : n \notin Descendants(ns, n)
    /\ \A n \in 2 .. Len(ns) :
          /\ ns[n].parent \in 1 .. Len(ns)
          /\ Occurrences(ns, n) = 1
          /\ n \in Range(ns[ns[n].parent].children)

\* C6: after a parse and after any sequence of AddChild and setter calls the
\* node graph is acyclic with the document as its one root, and every other
\* node is in exactly one child list, that of its Parent.
C6_WellFormed ==
    pc = "ready" => WellFormed(nodes)

\* C7: a Text assignment on the root or on a kind without direct text fails
\* with a capability error whose message names the node kind, and leaves the
\* nodes as they were.
C7_CapabilityError ==
    [][(CanEdit /\ op'.name = "SetText" /\ nops' = nops + 1
           /\ nodes[op'.node].Type \notin TextKinds)
        => /\ err'.type = "AttributeError"
           /\ nodes[op'.node].Type \in Range(err'.msg)
           /\ nodes' = nodes
           /\ mutated' = mutated]_vars

\* line k of the parsed text matches no block grammar
NoGrammar(k) ==
    /\ ~is_blank(At(lines, k))
    /\ ~heading_match(At(lines, k)).ok
    /\ ~fence_open_match(At(lines, k)).ok

\* line k lies in the raw text of a parsed paragraph
InParagraph(k) ==
    \E n \in Ids : /\ nodes[n].Type = "Paragraph"
                   /\ span[n][1] <= LineOff(lines, k)
                   /\ LineOff(lines, k + 1) <= span[n][1] + Len(nodes[n].raw_original)

\* C8: Parse raises nothing, classifies every line exactly once and yields a
\* tree; a line that matches no block grammar and is not inside a code block
\* is paragraph content.
C8_ParserTotal ==
    /\ err = NoErr
    /\ cls \in [1 .. Len(lines) -> LineClasses \cup {"none"}]
    /\ pc = "loop" => i < Len(lines)
    /\ pc = "ready" =>
          /\ WellFormed(nodes)
          /\ Subtree(nodes, Root) = Ids
          /\ \A k \in 0 .. Len(lines) - 1 :
                /\ cls[k + 1] \in LineClasses
                /\ cls[k + 1] = "paragraph" <=> InParagraph(k)
                /\ NoGrammar(k) => cls[k + 1] \in {"paragraph", "code", "fence-close"}

\* C8 witness: a parsed text with a line of seven hashes and an unterminated
\* fence, both taken as paragraph content
C8_Witness ==
    /\ pc = "ready" /\ nparse = 1 /\ err = NoErr
    /\ \E k \in 0 .. Len(lines) - 1 :
          /\ NoGrammar(k)
          /\ At(lines, k)[1] = "#"
          /\ InParagraph(k)
    /\ \E k \in 0 .. Len(lines) - 1 : Unterminated(k) /\ InParagraph(k)

\* the fence character and length of the fence that line a opens
OpenChar(a) == fence_open_match(At(lines, a)).fence[1]

OpenLen(a) == Len(fence_open_match(At(lines, a)).fence)

\* the line that closes the code block opened at line a
CloserOf(a) == Min({b \in a + 1 .. Len(lines) : b = Len(lines) \/ cls[b + 1] = "fence-close"})

\* C9: the body of a code block opened by a fence of N characters is the raw
\* lines up to the first later line that starts, after spaces and tabs, with
\* at least N of the same fence character; lines with a shorter run or the
\* other character are body lines.
C9_FenceClosing ==
    pc = "ready" => \A n \in Ids : nodes[n].Type = "CodeBlock" =>
        /\ nodes[n].opening_line_original = At(lines, LineAtOff(span[n][1]))
        /\ OpenLen(LineAtOff(span[n][1])) >= FenceMin
        /\ CloserOf(LineAtOff(span[n][1])) < Len(lines)
        /\ nodes[n].closing_line_original = At(lines, CloserOf(LineAtOff(span[n][1])))
        /\ StartsWithFence(nodes[n].closing_line_original,
                           OpenChar(LineAtOff(span[n][1])), OpenLen(LineAtOff(span[n][1])))
        /\ nodes[n].code_body_original =
              Join(lines, LineAtOff(span[n][1]) + 1, CloserOf(LineAtOff(span[n][1])))
        /\ \A k \in LineAtOff(span[n][1]) + 1 .. CloserOf(LineAtOff(span[n][1])) - 1 :
              /\ cls[k + 1] = "code"
              /\ ~StartsWithFence(At(lines, k), OpenChar(LineAtOff(span[n][1])),
                                  OpenLen(LineAtOff(span[n][1])))

\* C9 witness: a block opened by four backticks holds a line of exactly three
\* backticks in its body and is closed by a later line of four
C9_Witness ==
    /\ pc = "ready"
    /\ \E n \in Ids :
          /\ nodes[n].Type = "CodeBlock"
          /\ nodes[n].fence = <<Backtick, Backtick, Backtick, Backtick>>
          /\ nodes[n].code_body_original = <<Backtick, Backtick, Backtick, "\n">>
          /\ StartsWith(nodes[n].closing_line_original,
                        <<Backtick, Backtick, Backtick, Backtick>>, 0)

\* C10: at a fence-open line that no later line closes, the parser raises
\* nothing, creates no CodeBlock and parses a paragraph that starts at that
\* line.
C10_UnterminatedFence ==
    [][(pc = "loop" /\ i < Len(lines) /\ Unterminated(i))
        => /\ err' = NoErr
           /\ Len(nodes') > Len(nodes)
           /\ \A n \in Len(nodes) + 1 .. Len(nodes') : nodes'[n].Type # "CodeBlock"
           /\ nodes'[Len(nodes) + 1].Type = "Paragraph"
           /\ span'[Len(nodes) + 1][1] = LineOff(lines, i)
           /\ StartsWith(nodes'[Len(nodes) + 1].raw_original, At(lines, i), 0)
           /\ cls'[i + 1] = "paragraph"
           /\ i' > i]_vars

\* C10 witness: a four-backtick opener followed only by a three-backtick line
\* has been parsed as paragraph content, with no code block in the tree
C10_Witness ==
    /\ pc = "ready" /\ err = NoErr
    /\ Len(lines) >= 2
    /\ \E k \in 0 .. Len(lines) - 2 :
          /\ Unterminated(k)
          /\ OpenLen(k) = 4
          /\ StartsWithFence(At(lines, k + 1), Backtick, 3)
          /\ cls[k + 1] = "paragraph"
    /\ \A n \in Ids : nodes[n].Type # "CodeBlock"

\* the ids of the children of paragraph n, and its raw text
Kids(n) == nodes[n].children

\* the offsets, within the raw text of its paragraph p, of inline child c
Rel(p, c) == <<span[c][1] - span[p][1], span[c][2] - span[p][1]>>

ParsedParagraphs == {n \in Ids : nodes[n].Type = "Paragraph" /\ span[n][1] >= 0}

\* C11: the inline children of a parsed paragraph are Text, Link and Image
\* leaves whose raw slices are non-empty, contiguous and concatenate to the
\* paragraph's raw text, so the paragraph serialises to the same content
\* from its captured text and from its children.
C11_InlinePartition ==
    \A p \in ParsedParagraphs : Untouched(p) =>
        /\ \A k \in 1 .. Len(Kids(p)) :
              /\ nodes[Kids(p)[k]].Type \in {"Text", "Link", "Image"}
              /\ nodes[Kids(p)[k]].children = <<>>
              /\ Rel(p, Kids(p)[k])[1] < Rel(p, Kids(p)[k])[2]
              /\ Rel(p, Kids(p)[k])[1] =
                    (IF k = 1 THEN 0 ELSE Rel(p, Kids(p)[k - 1])[2])
              /\ nodes[Kids(p)[k]].raw_original =
                    Slice(nodes[p].raw_original,
                          Rel(p, Kids(p)[k])[1], Rel(p, Kids(p)[k])[2])
        /\ Len(nodes[p].raw_original) =
              (IF Kids(p) = <<>> THEN 0 ELSE Rel(p, Kids(p)[Len(Kids(p))])[2])
        /\ Flatten([k \in 1 .. Len(Kids(p)) |-> nodes[Kids(p)[k]].raw_original])
              = nodes[p].raw_original
        /\ Flatten([k \in 1 .. Len(Kids(p)) |-> ToMarkdown(nodes, Kids(p)[k]).s])
              = nodes[p].raw_original
        /\ ToMarkdown(nodes, p) = Ret(nodes[p].raw_original \o nodes[p].block_suffix)

\* C11 witness: a parsed paragraph of three lines with text, link and image
\* leaves
C11_Witness ==
    /\ pc = "ready"
    /\ \E p \in ParsedParagraphs :
          /\ Len(Kids(p)) >= 4
          /\ \E k \in 1 .. Len(Kids(p)) : nodes[Kids(p)[k]].Type = "Text"
          /\ \E k \in 1 .. Len(Kids(p)) : nodes[Kids(p)[k]].Type = "Link"
          /\ \E k \in 1 .. Len(Kids(p)) : nodes[Kids(p)[k]].Type = "Image"
          /\ \E k \in 1 .. Len(nodes[p].raw_original) - 1 :
                nodes[p].raw_original[k] = "\n"
          /\ Flatten([k \in 1 .. Len(Kids(p)) |-> nodes[Kids(p)[k]].raw_original])
                = nodes[p].raw_original

\* the scan rule in words: a link (image) starts at offset k of raw when raw
\* has '[' ('![') there, the first ']' from the label start is followed by
\* '(' and a ')' comes after it; cb and cp are the offsets of that ']' and of
\* the first such ')'
LabelStart(k, is_image) == IF is_image THEN k + 2 ELSE k + 1

Opens(raw, k, is_image) ==
    IF is_image
    THEN k + 1 < Len(raw) /\ At(raw, k) = "!" /\ At(raw, k + 1) = "["
    ELSE At(raw, k) = "["

MatchAt(raw, k, is_image, cb, cp) ==
    /\ Opens(raw, k, is_image)
    /\ cb \in LabelStart(k, is_image) .. Len(raw) - 1
    /\ At(raw, cb) = "]"
    /\ \A j \in LabelStart(k, is_image) .. cb - 1 : At(raw, j) # "]"
    /\ cb + 1 < Len(raw) /\ At(raw, cb + 1) = "("
    /\ cp \in cb + 2 .. Len(raw) - 1
    /\ At(raw, cp) = ")"
    /\ \A j \in cb + 2 .. cp - 1 : At(raw, j) # ")"

Matches(raw, k, is_image) ==
    \E cb \in 0 .. Len(raw) - 1 : \E cp \in 0 .. Len(raw) - 1 :
        MatchAt(raw, k, is_image, cb, cp)

\* the label and the href of a link node, as they stood in the raw text
LabelOf(nd) == nd.label_leading \o nd.label_core \o nd.label_trailing

HrefOf(nd) == nd.href_leading \o nd.href_core \o nd.href_trailing

\* C12: every Link or Image leaf of a parsed paragraph starts where the rule
\* matches, an image where '![' matches, and ends at the first ')' after the
\* '](' that follows the first ']'; its label and href are the text between;
\* no match starts inside a Text leaf, and no two Text leaves are adjacent.
C12_InlineScanRule ==
    \A p \in ParsedParagraphs : Untouched(p) =>
        \A k \in 1 .. Len(Kids(p)) :
            IF nodes[Kids(p)[k]].Type = "Text"
            THEN /\ \A j \in Rel(p, Kids(p)[k])[1] .. Rel(p, Kids(p)[k])[2] - 1 :
                        /\ ~Matches(nodes[p].raw_original, j, TRUE)
                        /\ ~Matches(nodes[p].raw_original, j, FALSE)
                 /\ k > 1 => nodes[Kids(p)[k - 1]].Type # "Text"
            ELSE /\ nodes[Kids(p)[k]].is_image <=> nodes[Kids(p)[k]].Type = "Image"
                 /\ \E cb \in 0 .. Len(nodes[p].raw_original) - 1 :
                       /\ MatchAt(nodes[p].raw_original, Rel(p, Kids(p)[k])[1],
                                  nodes[Kids(p)[k]].is_image,
                                  cb, Rel(p, Kids(p)[k])[2] - 1)
                       /\ LabelOf(nodes[Kids(p)[k]]) =
                             Slice(nodes[p].raw_original,
                                   LabelStart(Rel(p, Kids(p)[k])[1],
                                              nodes[Kids(p)[k]].is_image), cb)
                       /\ HrefOf(nodes[Kids(p)[k]]) =
                             Slice(nodes[p].raw_original, cb + 2,
                                   Rel(p, Kids(p)[k])[2] - 1)

\* C12 witness: the example parsed to Text('See '), Link(docs, http://x),
\* Text(' and '), Image(img, y.png), Text('.')
C12_Witness ==
    /\ pc = "ready" /\ text = InlineExample /\ Len(nodes) = 7
    /\ nodes[2].children = <<3, 4, 5, 6, 7>>
    /\ nodes[3].Type = "Text" /\ nodes[3].raw_original = <<"S", "e", "e", " ">>
    /\ nodes[4].Type = "Link" /\ nodes[4].label_core = <<"d", "o", "c", "s">>
    /\ nodes[4].href_core = <<"h", "t", "t", "p", ":", "/", "/", "x">>
    /\ nodes[5].Type = "Text" /\ nodes[5].raw_original = <<" ", "a", "n", "d", " ">>
    /\ nodes[6].Type = "Image" /\ nodes[6].label_core = <<"i", "m", "g">>
    /\ nodes[6].href_core = <<"y", ".", "p", "n", "g">>
    /\ nodes[7].Type = "Text" /\ nodes[7].raw_original = <<".">>

StackOk(st, lv) ==
    /\ Len(st) >= 1 /\ Len(lv) = Len(st)
    /\ st[1] = Root /\ lv[1] = 0
    /\ \A k \in 1 .. Len(lv) - 1 : lv[k] < lv[k + 1]

\* C14: at every point of Parse the open-heading stack is non-empty, has the
\* root with level 0 at its bottom and strictly increasing levels; a heading
\* step pops down to a non-empty prefix of the stack, which keeps the root,
\* and pushes the new heading on it.
C14_StackInvariant ==
    /\ [](nparse >= 1 =>
            /\ StackOk(stack, stack_levels)
            /\ \A k \in 2 .. Len(stack) :
                  /\ IsHeading(nodes[stack[k]])
                  /\ nodes[stack[k]].Level = stack_levels[k])
    /\ [][stack' # stack =>
            \/ nparse' = nparse + 1 /\ stack' = <<Root>>
            \/ /\ Len(stack') >= 2 /\ Len(stack') <= Len(stack) + 1
               /\ SubSeq(stack', 1, Len(stack') - 1) = SubSeq(stack, 1, Len(stack') - 1)
               /\ StackOk(SubSeq(stack', 1, Len(stack') - 1),
                          SubSeq(stack_levels', 1, Len(stack') - 1))]_vars

\* C14 witness: after '# A / ## B / ### C / ## D' the stack holds the root,
\* A and D: C and B were popped
C14_Witness ==
    /\ pc = "ready" /\ Len(nodes) = 5
    /\ \A n \in 2 .. 5 : IsHeading(nodes[n])
    /\ stack = <<1, 2, 5>>
    /\ stack_levels = <<0, 1, 2>>
    /\ nodes[4].Level = 3

IsPrefix(a, b) == Len(a) <= Len(b) /\ SubSeq(b, 1, Len(a)) = a

\* C15 as stated: across every operation, Parse included, each node's child
\* sequence before the operation is a prefix of its child sequence after it.
C15_Original ==
    [][\A n \in Ids : n <= Len(nodes') =>
          IsPrefix(nodes[n].children, nodes'[n].children)]_vars

\* C15 amended: across every operation but the start of a Parse, each node's
\* child sequence before the operation is a prefix of its child sequence
\* after it; Parse empties the child list of the document and rebuilds it.
C15_AppendOnly ==
    [][IF nparse' = nparse
       THEN \A n \in Ids : /\ n <= Len(nodes')
                           /\ IsPrefix(nodes[n].children, nodes'[n].children)
       ELSE nodes'[Root].children = <<>>]_vars

\* C15 witness: after two calls, the second an AddChild, the child was
\* appended behind the children the parser attached
C15_Witness ==
    /\ Parsed /\ nops = 2 /\ op.name = "AddChild"
    /\ Len(nodes[op.node].children) >= 2
    /\ nodes[op.node].children[Len(nodes[op.node].children)] = op.value[1]
    /\ span[nodes[op.node].children[1]][1] >= 0

\* the nodes on the Parent chain of n
RECURSIVE Ancestors(_, _, _)
Ancestors(ns, n, seen) ==
    IF ns[n].parent = None \/ ns[n].parent \in seen THEN seen
    ELSE Ancestors(ns, ns[n].parent, seen \cup {ns[n].parent})

\* AddChild(p, c) appends c as the last child of p, sets c.Parent to p and
\* marks p dirty; p and every ancestor of p is dirty afterwards
AddChildMarks ==
    [][op'.name = "AddChild" /\ nops' = nops + 1 =>
          /\ nodes'[op'.node].children =
                Append(nodes[op'.node].children, op'.value[1])
          /\ nodes'[op'.value[1]].parent = op'.node
          /\ nodes'[op'.node].dirty_self
          /\ \A a \in {op'.node} \cup Ancestors(nodes', op'.node, {}) :
                IsDirty(nodes', a)]_vars

\* during and after a Parse no node of the document is dirty
ParsedClean == [](op.name = "Parse" => \A n \in Ids : ~IsDirty(nodes, n))

\* C16: AddChild(p, c) appends c as the last child of p, sets c.Parent to p
\* and marks p dirty, so that p and every ancestor of p is dirty afterwards;
\* the parser attaches nodes without marking, so that a freshly parsed
\* document has no dirty node.
C16_AddChildDirty == AddChildMarks /\ ParsedClean

\* C17: Walk on a node yields the node, then the complete walk of each child
\* in child order, each node of the subtree exactly once; a second walk
\* yields the same sequence; FindAll(kind) yields the nodes of the walk whose
\* Type is kind, in the same order.
C17_WalkPreorder ==
    /\ Parsed => \A n \in Ids :
          /\ Walk(nodes, n).ok
          /\ Walk(nodes, n).s =
                <<n>> \o Flatten([k \in 1 .. Len(nodes[n].children) |->
                                     Walk(nodes, nodes[n].children[k]).s])
          /\ Range(Walk(nodes, n).s) = Subtree(nodes, n)
          /\ Len(Walk(nodes, n).s) = Cardinality(Subtree(nodes, n))
          /\ \A node_type \in FindKinds :
                FindAll(nodes, n, node_type) =
                    Ret(SelectSeq(Walk(nodes, n).s,
                                  LAMBDA m : nodes[m].Type = node_type))
    /\ op.name = "Walk" => out = Walk(nodes, op.node)
    /\ op.name = "FindAll" => out = FindAll(nodes, op.node, op.value[1])

\* a blank line in words: spaces and tabs only, then a line ending \n or \r\n
BlankLine(line) ==
    \E e \in {<<"\n">>, <<"\r", "\n">>} :
        /\ Len(line) >= Len(e)
        /\ SubSeq(line, Len(line) - Len(e) + 1, Len(line)) = e
        /\ \A k \in 1 .. Len(line) - Len(e) : line[k] \in SpaceTab

\* the number of blank lines before the first line that is not blank
LeadingBlanks ==
    Min({k \in 0 .. Len(lines) : k = Len(lines) \/ ~BlankLine(lines[k + 1])})

C18_WitnessBlankOnly ==
    /\ Parsed /\ Len(lines) >= 2 /\ LeadingBlanks = Len(lines)
    /\ nodes[Root].children = <<>>
    /\ nodes[Root].leading_trivia = text

\* the blocks the parser built, and the line each starts at
Blocks ==
    {n \in Ids : /\ span[n][1] >= 0
                 /\ (nodes[n].Type \in {"Paragraph", "CodeBlock"} \/ IsHeading(nodes[n]))}

StartLine(n) == LineAtOff(span[n][1])

\* line k ends a paragraph: it is blank, a heading line or a fence-open line
Stops(k) ==
    \/ BlankLine(At(lines, k))
    \/ heading_match(At(lines, k)).ok
    \/ fence_open_match(At(lines, k)).ok

\* the first line after line a that ends a paragraph, or the end of the text
ExtentEnd(a) == Min({e \in a + 1 .. Len(lines) : e = Len(lines) \/ Stops(e)})

\* the line after the content of block n: its paragraph lines, its heading
\* line, or its closing fence
BodyEnd(n) ==
    IF nodes[n].Type = "Paragraph" THEN ExtentEnd(StartLine(n))
    ELSE IF nodes[n].Type = "CodeBlock" THEN CloserOf(StartLine(n)) + 1
    ELSE StartLine(n) + 1

\* the first line from e that is not blank, or the end of the text
BlanksEnd(e) ==
    Min({k \in e .. Len(lines) : k = Len(lines) \/ ~BlankLine(At(lines, k))})

SuffixOf(nd) ==
    IF nd.Type = "CodeBlock" THEN nd.block_suffix_original ELSE nd.block_suffix

\* the lines at which the parser looks for a new block
BlockStarts == {LeadingBlanks} \cup {LineAtOff(span[m][2]) : m \in Blocks}

\* C19: a line that is not blank, no heading and no closable fence opener
\* opens a paragraph, which holds the lines up to, and not including, the
\* first blank line, heading line or fence-open line; the blank lines right
\* after a paragraph, a heading or a closed code block are that block's
\* suffix, and no line belongs to two blocks.
C19_ParagraphExtent ==
    Parsed =>
        /\ \A n \in Blocks : nodes[n].Type = "Paragraph" =>
              /\ ~BlankLine(At(lines, StartLine(n)))
              /\ ~heading_match(At(lines, StartLine(n))).ok
              /\ fence_open_match(At(lines, StartLine(n))).ok
                    => Unterminated(StartLine(n))
              /\ nodes[n].raw_original =
                    Join(lines, StartLine(n), ExtentEnd(StartLine(n)))
        /\ \A n \in Blocks :
              /\ SuffixOf(nodes[n]) = Join(lines, BodyEnd(n), BlanksEnd(BodyEnd(n)))
              /\ span[n][2] = LineOff(lines, BlanksEnd(BodyEnd(n)))
              /\ \A k \in BodyEnd(n) .. BlanksEnd(BodyEnd(n)) - 1 : cls[k + 1] = "suffix"
        /\ \A n \in Blocks : \A m \in Blocks \ {n} :
              span[n][2] <= span[m][1] \/ span[m][2] <= span[n][1]
        /\ \A k \in BlockStarts : k < Len(lines) =>
              \/ heading_match(At(lines, k)).ok
              \/ fence_open_match(At(lines, k)).ok /\ ~Unterminated(k)
              \/ \E n \in Blocks : nodes[n].Type = "Paragraph" /\ StartLine(n) = k

\* C19 witness: a paragraph of one line stopped by a fence-open line that
\* itself opens a paragraph, and a block with a suffix of a blank line
C19_Witness ==
    /\ Parsed
    /\ \E n \in Blocks :
          /\ nodes[n].Type = "Paragraph"
          /\ ExtentEnd(StartLine(n)) < Len(lines)
          /\ fence_open_match(At(lines, ExtentEnd(StartLine(n)))).ok
          /\ nodes[n].block_suffix = <<>>
          /\ \E m \in Blocks : /\ nodes[m].Type = "Paragraph"
                               /\ StartLine(m) = ExtentEnd(StartLine(n))
                               /\ nodes[m].block_suffix # <<>>

\* a step is a setter call that assigned: n.Text, n.Href or n.InfoString
SetterStep ==
    /\ nops' = nops + 1
    /\ op'.name \in {"SetText", "SetHref", "SetInfoString"}
    /\ err' = NoErr

\* the nodes that hold n below them: n is reached from them through the
\* child lists
Holders(ns, n) == {m \in 1 .. Len(ns) : n \in Descendants(ns, m)}

\* C20: a setter call on a node n leaves ToMarkdown() of every node that is
\* neither n nor an ancestor of n as it was, so that a node that serialised
\* to its source slice still does; the output of the ancestors changes only
\* through the output of n: when n serialises as before, so does every node.
\* The ancestors of n are the nodes that hold n below them; in a well-formed
\* tree they are the nodes of n's Parent chain.
C20_MutationFrame ==
    [][SetterStep =>
          /\ \A m \in Ids \ ({op'.node} \cup Holders(nodes, op'.node)) :
                ToMarkdown(nodes', m) = ToMarkdown(nodes, m)
          /\ ToMarkdown(nodes', op'.node) = ToMarkdown(nodes, op'.node)
                => \A m \in Ids : ToMarkdown(nodes', m) = ToMarkdown(nodes, m)
          /\ WellFormed(nodes)
                => Holders(nodes, op'.node) = Ancestors(nodes, op'.node, {})]_vars

\* C20 witness: one Text assignment changed the node and the paragraph that
\* holds it, and a block that does not hold it still serialises to its
\* source slice
C20_Witness ==
    /\ Parsed /\ nops = 1 /\ op.name = "SetText" /\ err = NoErr
    /\ nodes[nodes[op.node].parent].Type = "Paragraph"
    /\ ToMarkdown(nodes, nodes[op.node].parent)
          # Ret(OrigSlice(nodes[op.node].parent))
    /\ \E m \in Ids \ ({op.node} \cup Holders(nodes, op.node)) :
          /\ nodes[m].Type \in {"Paragraph", "CodeBlock"}
          /\ span[m][1] >= 0
          /\ ToMarkdown(nodes, m) = Ret(OrigSlice(m))

\* the only call made on the freshly parsed document assigned Text to a
\* code block
CodeTextAssigned ==
    /\ Parsed /\ nparse = 1 /\ nops = 1
    /\ op.name = "SetText" /\ err = NoErr
    /\ nodes[op.node].Type = "CodeBlock"

\* C21: after Text = v on a parsed code block, Text returns v as given and
\* the block serialises to its original opening line, v, its original
\* closing line and its original block suffix.
C21_CodeBodyOnly ==
    CodeTextAssigned =>
        /\ GetText(nodes, op.node) = op.value
        /\ ToMarkdown(nodes, op.node) =
              Ret(nodes[op.node].opening_line_original \o op.value
                  \o nodes[op.node].closing_line_original
                  \o nodes[op.node].block_suffix_original)

\* the only call made on the freshly parsed document assigned Text to a
\* heading
HeadingRenamed ==
    /\ Parsed /\ nparse = 1 /\ nops = 1
    /\ op.name = "SetText" /\ err = NoErr
    /\ IsHeading(nodes[op.node])

\* the offset in a heading line after the indentation, the '#' run and the
\* whitespace that separates it from the title
TitleStart(line) ==
    Skip(line, Skip(line, Skip(line, 0, SpaceTab), {"#"}), SpaceTab)

\* the offsets <<a, b>> in a heading line of the title without the
\* whitespace around it; an empty title sits right after the separator
TitleCoreOf(line) ==
    <<Min({TitleStart(line)
              + RunLen(Slice(line, TitleStart(line), Len(line)), 0, Whitespace),
           Len(line) - TailRunLen(Slice(line, TitleStart(line), Len(line)), Whitespace)}),
      Len(line) - TailRunLen(Slice(line, TitleStart(line), Len(line)), Whitespace)>>

\* the heading line of parsed heading n
LineOfNode(n) == At(lines, LineAtOff(span[n][1]))

\* the absolute offsets of the title core of parsed heading n in the text
TitleCoreSpan(n) ==
    <<span[n][1] + TitleCoreOf(LineOfNode(n))[1],
      span[n][1] + TitleCoreOf(LineOfNode(n))[2]>>

\* C22: after Text = v on a parsed heading, Text returns v stripped, and the
\* heading's output (its line, its block suffix and its children) and the
\* document's output are the original with the title core replaced by the
\* stripped value; the level and kind are those of the '#' run.
C22_HeadingRename ==
    HeadingRenamed =>
        /\ GetText(nodes, op.node) = strip(op.value)
        /\ ToMarkdown(nodes, op.node) =
              Ret(Replace(OrigSlice(op.node), TitleCoreOf(LineOfNode(op.node)),
                          strip(op.value)))
        /\ ToMarkdown(nodes, Root) =
              Ret(Replace(text, TitleCoreSpan(op.node), strip(op.value)))
        /\ nodes[op.node].Level =
              RunLen(LineOfNode(op.node), Skip(LineOfNode(op.node), 0, SpaceTab), {"#"})
        /\ nodes[op.node].Type = HeadingTypes[nodes[op.node].Level]
        /\ \A k \in 1 .. Len(nodes[op.node].children) :
              ToMarkdown(nodes, nodes[op.node].children[k]) =
                  Ret(OrigSlice(nodes[op.node].children[k]))

\* C22 witness: an indented heading with a tab after the '#' run, a space
\* after the title, a \r\n line ending, a block suffix and a child heading
\* was given a title with whitespace around it
C22_Witness ==
    /\ HeadingRenamed
    /\ strip(op.value) # op.value
    /\ nodes[op.node].prefix = <<" ", "#", "#", "\t", " ">>
    /\ nodes[op.node].line_suffix = <<" ", "\r", "\n">>
    /\ nodes[op.node].block_suffix # <<>>
    /\ \E k \in 1 .. Len(nodes[op.node].children) :
          IsHeading(nodes[nodes[op.node].children[k]])
    /\ ToMarkdown(nodes, Root) # Ret(text)

\* validate was called on a gistpp file that the linter passed
Validated ==
    /\ pc = "ready" /\ op.name = "validate"
    /\ op.value = <<"gistpp", TRUE>>

\* what the asserts of validate say the linter guarantees: one top-level
\* node, a heading 1
OneTitle ==
    /\ Len(nodes[Root].children) = 1
    /\ nodes[nodes[Root].children[1]].Type = "Heading1"

\* C23: on a gistpp file that passes the lint stage validate returns a
\* boolean, False together with a printed diagnostic, and raises nothing,
\* whatever nodes are below the top-level heading and in the Behavior
\* section.
C23_ReportedNotRaised ==
    Validated /\ OneTitle =>
        /\ err = NoErr
        /\ out.ok
        /\ out.s = <<"True">> \/ (out.s[1] = "False" /\ Len(out.s) >= 2)

\* the headings 2 titled Behavior below the top-level heading
BehaviorHeadings ==
    {c \in Range(nodes[nodes[Root].children[1]].children) :
        nodes[c].Type = "Heading2" /\ GetText(nodes, c) = Behavior}

\* validate was called on a linted gistpp file with one title, below it
\* paragraphs and allowed headings 2 only, one of them titled Behavior
BehaviorChecked ==
    /\ Validated /\ OneTitle
    /\ BadH2(nodes, nodes[Root].children[1]) = {}
    /\ Cardinality(BehaviorHeadings) = 1

\* C24: validate returns False when the children of the Behavior heading
\* hold both a heading 3 and a paragraph or list, and True when they are
\* headings 3 only or paragraphs and lists only.
C24_BehaviorRule ==
    BehaviorChecked => \A b \in BehaviorHeadings :
        /\ HasKind(nodes, b, "Heading3")
              /\ (HasKind(nodes, b, "List") \/ HasKind(nodes, b, "Paragraph"))
           => err = NoErr /\ out.ok /\ out.s[1] = "False"
        /\ \/ \A c \in Range(nodes[b].children) : nodes[c].Type = "Heading3"
           \/ \A c \in Range(nodes[b].children) : nodes[c].Type \in {"List", "Paragraph"}
           => err = NoErr /\ out = Returned(TRUE, <<>>)

AllWhitespace(x) == \A k \in 1 .. Len(x) : x[k] \in Whitespace

\* C25: _split_trivia(raw) returns (leading, core, trailing) that
\* concatenate to raw; leading is the longest whitespace prefix of raw; core
\* neither starts nor ends with whitespace; trailing is the longest
\* whitespace suffix of raw, or empty when raw is all whitespace, and then
\* core is empty too.
C25_SplitTrivia ==
    op.name = "_split_trivia" =>
        /\ out.s[1] \o out.s[2] \o out.s[3] = op.value
        /\ AllWhitespace(out.s[1])
        /\ Len(out.s[1]) < Len(op.value)
              => op.value[Len(out.s[1]) + 1] \notin Whitespace
        /\ AllWhitespace(out.s[3])
        /\ out.s[2] # <<>>
              => /\ out.s[2][1] \notin Whitespace
                 /\ out.s[2][Len(out.s[2])] \notin Whitespace
        /\ AllWhitespace(op.value)
              => out.s[1] = op.value /\ out.s[2] = <<>> /\ out.s[3] = <<>>

\* C25 witness: a string with a line ending in its leading and in its
\* trailing whitespace, and whitespace inside its core
C25_Witness ==
    /\ op.name = "_split_trivia"
    /\ "\n" \in Range(out.s[1])
    /\ "\n" \in Range(out.s[3])
    /\ Len(out.s[2]) = 3 /\ out.s[2][2] \in Whitespace

\* C26: every iteration of the main loop starts on a line that is not
\* blank and leaves the line index greater than it was, at most the number
\* of lines; the lines it passes were not consumed before and are consumed
\* by it; the fence-open line of an unterminated fence is consumed as a
\* paragraph line by the same iteration; the loop ends when the index is
\* the number of lines, without an error.
C26_ParseTerminates ==
    /\ [][pc = "loop" =>
             /\ i < Len(lines)
             /\ ~BlankLine(At(lines, i))
             /\ i' > i /\ i' <= Len(lines)
             /\ \A k \in i .. i' - 1 :
                   cls[k + 1] = "none" /\ cls'[k + 1] \notin {"none", "twice"}
             /\ Unterminated(i) => cls'[i + 1] = "paragraph"]_vars
    /\ [](/\ i <= Len(lines)
          /\ pc = "ready" /\ nparse >= 1 => i = Len(lines) /\ err = NoErr)

\* C26 witness: the parse ended on a text whose first line opens a fence
\* that is never closed: the line and the two lines after it are one
\* paragraph
C26_Witness ==
    /\ Parsed /\ Len(lines) >= 3
    /\ Unterminated(0)
    /\ \A k \in 1 .. 3 : cls[k] = "paragraph"
    /\ Len(nodes[Root].children) = 1

\* what the getter of the property a setter call assigns returns on ns
GetterOf(ns, call) ==
    CASE call.name = "SetText" -> GetText(ns, call.node)
      [] call.name = "SetHref" -> ns[call.node].href_core
      [] call.name = "SetInfoString" -> strip(ns[call.node].info)

\* C27: on a freshly parsed document, assigning a property the value its
\* getter returns leaves the document's ToMarkdown() equal to the input.
C27_SetCurrentValue ==
    [][/\ pc = "ready" /\ nparse = 1 /\ nops = 0
       /\ SetterStep
       /\ op'.value = GetterOf(nodes, op')
       => ToMarkdown(nodes', Root) = Ret(text)]_vars

\* the parsed headings that start before block n in the text
HeadingsBefore(n) ==
    {h \in Blocks : IsHeading(nodes[h]) /\ span[h][1] < span[n][1]}

\* the heading that starts last before block n, or the document
LastHeadingBefore(n) ==
    IF HeadingsBefore(n) = {} THEN Root
    ELSE CHOOSE h \in HeadingsBefore(n) :
             \A g \in HeadingsBefore(n) : span[g][1] <= span[h][1]

\* C28: every parsed paragraph and code block is a child of the heading
\* that starts last before it, or of the document when no heading does;
\* every node's children are in source order, each attached behind the
\* earlier ones; the pre-order walk of the document visits the blocks in
\* source order; the level of a heading is greater than that of the heading
\* it is a child of.
C28_AttachOrder ==
    /\ \A n \in Blocks : nodes[n].Type \in {"Paragraph", "CodeBlock"} =>
          /\ nodes[n].parent = LastHeadingBefore(n)
          /\ n \in Range(nodes[LastHeadingBefore(n)].children)
    /\ \A p \in Ids : \A k \in 1 .. Len(nodes[p].children) - 1 :
          span[nodes[p].children[k]][1] < span[nodes[p].children[k + 1]][1]
    /\ \A a \in 1 .. Len(Walk(nodes, Root).s) : \A b \in a + 1 .. Len(Walk(nodes, Root).s) :
          Walk(nodes, Root).s[a] \in Blocks /\ Walk(nodes, Root).s[b] \in Blocks
             => span[Walk(nodes, Root).s[a]][1] < span[Walk(nodes, Root).s[b]][1]
    /\ \A h \in Blocks : IsHeading(nodes[h]) /\ nodes[h].parent # Root =>
          /\ IsHeading(nodes[nodes[h].parent])
          /\ nodes[nodes[h].parent].Level < nodes[h].Level

\* C28 witness: a paragraph of the document, then a heading and a
\* paragraph below it
C28_Witness ==
    /\ Parsed
    /\ \E a \in Blocks : \E h \in Blocks : \E b \in Blocks :
          /\ nodes[a].Type = "Paragraph" /\ nodes[a].parent = Root
          /\ IsHeading(nodes[h]) /\ span[a][1] < span[h][1]
          /\ nodes[b].Type = "Paragraph" /\ nodes[b].parent = h
          /\ Walk(nodes, Root).s[1] = Root
          /\ a \in Range(Walk(nodes, Root).s) /\ b \in Range(Walk(nodes, Root).s)

\* Parse was called on a document that had been parsed before, and ended
Reparsed == Parsed /\ nparse >= 2 /\ op.name = "Parse"

\* C29: after Parse(t) on a document that held content the document is as
\* a fresh document built from t: its own fields are those of a new
\* document with the leading trivia of t, every node is one the parse of t
\* built and is in the tree, the tree is well formed, the output is t and
\* IsDirty is false.
C29_ReparseFresh ==
    Reparsed =>
        /\ nodes[Root] = [MarkdownDocument EXCEPT
                             !.children = nodes[Root].children,
                             !.leading_trivia = Join(lines, 0, LeadingBlanks)]
        /\ \A n \in Ids \ {Root} : span[n][1] >= 0 /\ n \in Descendants(nodes, Root)
        /\ WellFormed(nodes)
        /\ ToMarkdown(nodes, Root) = Ret(text)
        /\ ~IsDirty(nodes, Root)

\* the outputs of the children of p, in the order of its child list
KidsOut(ns, p) ==
    Flatten([k \in 1 .. Len(ns[p].children) |-> ToMarkdown(ns, ns[p].children[k]).s])

\* what a node writes after its children: a paragraph its block suffix
AfterKids(nd) == IF nd.Type = "Paragraph" THEN nd.block_suffix ELSE <<>>

\* the output of p holds the outputs of its children, one after the other
\* in the order of the child list, with only AfterKids behind them
HoldsKids(ns, p) ==
    \E a \in 0 .. Len(ToMarkdown(ns, p).s) :
        ToMarkdown(ns, p).s =
            Slice(ToMarkdown(ns, p).s, 0, a) \o KidsOut(ns, p) \o AfterKids(ns[p])

\* C30: after AddChild(p, c), on a node p of any kind, the output of p
\* holds the output of c as the contribution of its last child, behind the
\* contributions of the earlier children.
C30_ChildrenSerialized ==
    [][/\ op'.name = "AddChild" /\ nops' = nops + 1
       /\ ToMarkdown(nodes', op'.node).ok
       => /\ nodes'[op'.node].children[Len(nodes'[op'.node].children)] = op'.value[1]
          /\ HoldsKids(nodes', op'.node)]_vars

====
